---- MODULE Spec2Model ----
(***************************************************************************)
(* A model of src/src/de.rs: the relaxed-JSON Deserializer (whitespace and *)
(* comment scanners, number and keyword parsers, the any-value dispatcher  *)
(* with its sequence and map accessors) and the StreamDeserializer.        *)
(*                                                                         *)
(* Bytes are one-character strings.  The input is a sequence of bytes and  *)
(* the Deserializer is a record                                            *)
(*   i      number of bytes consumed (the reader's byte_offset),           *)
(*   buf    str_buf, the scratch buffer,                                   *)
(*   depth  remaining_depth,                                               *)
(*   cap    the capture flag,                                              *)
(*   fail   the byte indices at which the reader's next read attempt       *)
(*          returns an I/O error (each failure is reported once),          *)
(*   ovf    whether an integer operation has overflowed.  The code leaves  *)
(*          the outcome to the build: with overflow checks the operation   *)
(*          panics, without them it wraps and the call goes on.  The       *)
(*          operators compute the wrapped run and set ovf; an action       *)
(*          offers both outcomes (Outcomes), and a state with ovf set is   *)
(*          one that only a build without overflow checks reaches.         *)
(* Positions of errors are byte indices: the index of the byte last        *)
(* consumed (Deserializer::error) or of the byte peeked (peek_error); at   *)
(* the end of the input nothing is peeked and the two coincide.  An error *)
(* made without position (an I/O error, a consumer's error) has the        *)
(* position NoPos until a fix_position call gives it one.                  *)
(***************************************************************************)
EXTENDS Integers, Sequences, FiniteSets, TLC

VARIABLES
    input,   \* the bytes of the input source
    target,  \* the consumer type T being deserialized
    de,      \* the Deserializer
    offset,  \* StreamDeserializer::offset
    out      \* what the last operation returned

vars == <<input, target, de, offset, out>>

----------------------------------------------------------------------------
(* Bytes *)

EOF == "<eof>"
IoErr == "<io>"
NUL == "<0>"

Digits == {"0", "1", "2", "3", "4", "5", "6", "7", "8", "9"}

DigitVal(c) ==
    CASE c = "0" -> 0 [] c = "1" -> 1 [] c = "2" -> 2 [] c = "3" -> 3
      [] c = "4" -> 4 [] c = "5" -> 5 [] c = "6" -> 6 [] c = "7" -> 7
      [] c = "8" -> 8 [] c = "9" -> 9

IsNewline(c) == c \in {"\n", "\r"}

----------------------------------------------------------------------------
(* Deserializer::new and the byte-level reader *)

RecursionLimit == 128

NewDeserializer ==
    [i |-> 0, buf |-> <<>>, depth |-> RecursionLimit, cap |-> FALSE, fail |-> {},
     ovf |-> FALSE]

\* an integer operation overflowed and, in a build without overflow checks,
\* wrapped
Overflowed(p) == [p EXCEPT !.ovf = TRUE]

\* read.peek(): the next byte, EOF, or an I/O error
Peek(p) ==
    IF (p.i + 1) \in p.fail THEN IoErr
    ELSE IF p.i < Len(input) THEN input[p.i + 1]
    ELSE EOF

\* the reader after it has reported the I/O error of its next read
Failed(p) == [p EXCEPT !.fail = @ \ {p.i + 1}]

peek_or_null(p) == IF Peek(p) = EOF THEN NUL ELSE Peek(p)

\* next_char: consume one byte, mirroring it into str_buf under capture
next_char(p) ==
    LET c == Peek(p) IN
    IF c = IoErr THEN [p |-> Failed(p), c |-> IoErr]
    ELSE IF c = EOF THEN [p |-> p, c |-> EOF]
    ELSE [p |-> [p EXCEPT !.i = @ + 1,
                          !.buf = IF p.cap THEN Append(@, c) ELSE @],
          c |-> c]

\* if let Ok(c) = ret { if self.capture { self.str_buf.push(c) } }, where r
\* is what next_char returned; or_null reads an EOF as the byte NUL
PushAgain(r, or_null) ==
    IF r.c = IoErr \/ (r.c = EOF /\ ~or_null) THEN r
    ELSE [p |-> [r.p EXCEPT !.buf = IF r.p.cap
                                    THEN Append(@, IF r.c = EOF THEN NUL ELSE r.c)
                                    ELSE @],
          c |-> IF r.c = EOF THEN NUL ELSE r.c]

\* eat_char: next_char with any error dropped, and a second push of the
\* byte into str_buf under capture
eat_char(p) == PushAgain(next_char(p), FALSE).p

\* next_char_or_null: next_char, EOF read as NUL, and a second push of the
\* byte into str_buf under capture
next_char_or_null(p) == PushAgain(next_char(p), TRUE)

\* Deserializer::error and peek_error: where the error is reported
ErrorPos(p) == p.i
PeekErrorPos(p) == IF p.i < Len(input) THEN p.i + 1 ELSE Len(input)

----------------------------------------------------------------------------
(* The three whitespace scanners.  A result is [p, err, c, nl]: the        *)
(* Deserializer after the call, "" or "Io", the byte returned (EOF for     *)
(* None) and the had_newline flag.                                         *)

ScanOk(p, c, nl) == [p |-> p, err |-> "", c |-> c, nl |-> nl]
ScanIo(p, nl) == [p |-> Failed(p), err |-> "Io", c |-> IoErr, nl |-> nl]

RECURSIVE WsLoop(_, _, _)
WsLoop(p, line_comment, multiline_comment) ==
    LET c == Peek(p) IN
    IF c = IoErr THEN ScanIo(p, FALSE)
    ELSE IF line_comment THEN
        IF c = EOF THEN ScanOk(p, EOF, FALSE)
        ELSE WsLoop(eat_char(p), ~IsNewline(c), FALSE)
    ELSE IF multiline_comment THEN
        IF c = EOF THEN ScanOk(p, EOF, FALSE)
        ELSE IF c = "*" THEN
            LET p1 == eat_char(p)
                c1 == Peek(p1)
            IN  IF c1 = IoErr THEN ScanIo(p1, FALSE)
                ELSE WsLoop(eat_char(p1), FALSE, c1 # "/")
        ELSE WsLoop(eat_char(p), FALSE, TRUE)
    ELSE
        IF c \in {" ", "\n", "\t", "\r"} THEN WsLoop(eat_char(p), FALSE, FALSE)
        ELSE IF c = "#" THEN WsLoop(eat_char(p), TRUE, FALSE)
        ELSE IF c = "/" THEN
            LET p1 == eat_char(p)
                c1 == Peek(p1)
            IN  IF c1 = IoErr THEN ScanIo(p1, FALSE)
                ELSE IF c1 = "/" THEN WsLoop(eat_char(p1), TRUE, FALSE)
                ELSE IF c1 = "*" THEN WsLoop(eat_char(p1), FALSE, TRUE)
                ELSE ScanOk(p1, c1, FALSE)
        ELSE ScanOk(p, c, FALSE)

parse_whitespace(p) == WsLoop(p, FALSE, FALSE)

RECURSIVE WsNlLoop(_, _, _, _)
WsNlLoop(p, line_comment, multiline_comment, had_newline) ==
    LET c == Peek(p) IN
    IF c = IoErr THEN ScanIo(p, had_newline)
    ELSE IF line_comment THEN
        IF c = EOF THEN ScanOk(p, EOF, had_newline)
        ELSE WsNlLoop(eat_char(p), ~IsNewline(c), FALSE, had_newline)
    ELSE IF multiline_comment THEN
        IF c = EOF THEN ScanOk(p, EOF, had_newline)
        ELSE IF c = "*" THEN
            \* the second peek sees the same byte again
            LET c1 == Peek(p) IN
            IF c1 = "/" THEN WsNlLoop(eat_char(eat_char(p)), FALSE, FALSE, had_newline)
            ELSE WsNlLoop(eat_char(p), FALSE, TRUE, had_newline)
        ELSE WsNlLoop(eat_char(p), FALSE, TRUE, had_newline)
    ELSE
        IF c \in {" ", "\t"} THEN WsNlLoop(eat_char(p), FALSE, FALSE, had_newline)
        ELSE IF IsNewline(c) THEN WsNlLoop(eat_char(p), FALSE, FALSE, TRUE)
        ELSE IF c = "#" THEN WsNlLoop(eat_char(p), TRUE, FALSE, had_newline)
        ELSE IF c = "/" THEN
            \* the second peek sees the same byte again
            LET c1 == Peek(p) IN
            IF c1 = "/" THEN WsNlLoop(eat_char(eat_char(p)), TRUE, FALSE, had_newline)
            ELSE IF c1 = "*" THEN WsNlLoop(eat_char(eat_char(p)), FALSE, TRUE, had_newline)
            ELSE ScanOk(p, c1, had_newline)
        ELSE ScanOk(p, c, had_newline)

parse_whitespace_get_newline(p) == WsNlLoop(p, FALSE, FALSE, FALSE)

RECURSIVE WsUntilLoop(_, _, _, _)
WsUntilLoop(p, line_comment, multiline_comment, prev) ==
    LET c == Peek(p)
        \* the end of one iteration: prev = try!(self.peek())
        Again(q, lc, mc) ==
            IF Peek(q) = IoErr THEN ScanIo(q, FALSE)
            ELSE WsUntilLoop(q, lc, mc, Peek(q))
    IN
    IF c = IoErr THEN ScanIo(p, FALSE)
    ELSE IF line_comment THEN
        IF IsNewline(c) THEN ScanOk(p, prev, TRUE)
        ELSE IF c = EOF THEN ScanOk(p, EOF, FALSE)
        ELSE Again(eat_char(p), TRUE, FALSE)
    ELSE IF multiline_comment THEN
        IF c = EOF THEN ScanOk(p, EOF, FALSE)
        ELSE IF c = "*" THEN
            LET p1 == eat_char(p)
                c1 == Peek(p1)
            IN  IF c1 = IoErr THEN ScanIo(p1, FALSE)
                ELSE Again(eat_char(p1), FALSE, c1 # "/")
        ELSE Again(eat_char(p), FALSE, TRUE)
    ELSE
        IF c \in {" ", "\t"} THEN Again(eat_char(p), FALSE, FALSE)
        ELSE IF IsNewline(c) THEN ScanOk(p, prev, TRUE)
        ELSE IF c = "#" THEN Again(eat_char(p), TRUE, FALSE)
        ELSE IF c = "/" THEN
            \* the second peek sees the same byte again
            LET c1 == Peek(p) IN
            IF c1 = "/" THEN Again(eat_char(eat_char(p)), TRUE, FALSE)
            ELSE IF c1 = "*" THEN Again(eat_char(eat_char(p)), FALSE, TRUE)
            ELSE ScanOk(p, c1, FALSE)
        ELSE ScanOk(p, c, FALSE)

parse_whitespace_until_newline(p) == WsUntilLoop(p, FALSE, FALSE, EOF)

----------------------------------------------------------------------------
(* Values and results.  A value delivered to the consumer is a record      *)
(*   t     "Unit", "Bool", "U64", "I64", "F64", "Str", "Seq" or "Map",     *)
(*   s     the bytes of a string; the decimal digits of an integer's       *)
(*         magnitude or of a float's significand; <<"true">>, <<"false">>, *)
(*   e     the decimal exponent of a float,                                *)
(*   pos   the sign (FALSE for an I64 and for a negative float),           *)
(*   kids  the elements of a Seq; key, value, key, value, ... of a Map.    *)
(* An unsigned 64-bit quantity is kept as its decimal digits, most         *)
(* significant first and without leading zeros, so that no width is lost.  *)
(* A result is [p, err, epos, v]: the Deserializer after the call, the     *)
(* error code ("" for Ok), the error's position and the value.  An I/O      *)
(* error is made without position, and keeps none unless it passes         *)
(* through fix_position on its way out.                                    *)

Val(t, s, e, pos, kids) == [t |-> t, s |-> s, e |-> e, pos |-> pos, kids |-> kids]
NoVal == Val("None", <<>>, 0, TRUE, <<>>)
Unit == Val("Unit", <<>>, 0, TRUE, <<>>)
Bool(b) == Val("Bool", IF b THEN <<"t", "r", "u", "e">> ELSE <<"f", "a", "l", "s", "e">>, 0, TRUE, <<>>)
U64(digits) == Val("U64", digits, 0, TRUE, <<>>)
I64(digits) == Val("I64", digits, 0, FALSE, <<>>)
F64(pos, digits, e) == Val("F64", digits, e, pos, <<>>)
Str(bytes) == Val("Str", bytes, 0, TRUE, <<>>)
SeqVal(kids) == Val("Seq", <<>>, 0, TRUE, kids)
MapVal(kids) == Val("Map", <<>>, 0, TRUE, kids)

\* the position of an error that has none: Error::io and the errors a
\* consumer makes carry line 0
NoPos == -1

Ok(p, v) == [p |-> p, err |-> "", epos |-> 0, v |-> v]
Err(p, code, epos) == [p |-> p, err |-> code, epos |-> epos, v |-> NoVal]
IoFail(p) == Err(Failed(p), "Io", NoPos)

\* let x = ...; F(x): the value is computed once and then used by F
Bind(x, F(_)) == F(x)

----------------------------------------------------------------------------
(* Arithmetic on decimal digit strings *)

Zero == <<"0">>

\* significand * 10 + digit
MulAdd(sig, d) == IF sig = Zero THEN <<d>> ELSE Append(sig, d)

RECURSIVE LexGt(_, _, _)
LexGt(a, b, k) ==
    IF k > Len(a) THEN FALSE
    ELSE IF DigitVal(a[k]) # DigitVal(b[k]) THEN DigitVal(a[k]) > DigitVal(b[k])
    ELSE LexGt(a, b, k + 1)

NatGt(a, b) == Len(a) > Len(b) \/ (Len(a) = Len(b) /\ LexGt(a, b, 1))
NatGe(a, b) == a = b \/ NatGt(a, b)

\* u64::MAX / 10 and u64::MAX % 10
U64MaxDiv10 ==
    <<"1", "8", "4", "4", "6", "7", "4", "4", "0", "7", "3", "7", "0", "9", "5", "5", "1", "6", "1">>
U64MaxMod10 == 5
\* 2^63, the magnitude of i64::MIN
I64MinAbs ==
    <<"9", "2", "2", "3", "3", "7", "2", "0", "3", "6", "8", "5", "4", "7", "7", "5", "8", "0", "8">>

\* overflow!(a * 10 + b, u64::MAX)
OverflowU64(a, b) ==
    NatGe(a, U64MaxDiv10) /\ (NatGt(a, U64MaxDiv10) \/ DigitVal(b) > U64MaxMod10)

I32Max == 2147483647
I32Min == (-I32Max) - 1

\* overflow!(a * 10 + b, i32::MAX)
OverflowI32(a, b) ==
    a >= I32Max \div 10 /\ (a > I32Max \div 10 \/ b > I32Max % 10)

saturating_add(a, b) ==
    IF a >= 0 THEN (IF b > I32Max - a THEN I32Max ELSE a + b)
    ELSE (IF b < I32Min - a THEN I32Min ELSE a + b)

saturating_sub(a, b) ==
    IF a >= 0 THEN (IF b < a - I32Max THEN I32Max ELSE a - b)
    ELSE (IF b > a - I32Min THEN I32Min ELSE a - b)

----------------------------------------------------------------------------
(* f64_from_parts.  The float is kept as significand * 10^exponent.  The   *)
(* code makes two tests on the f64 it computes, whether the product        *)
(* overflowed to infinity and whether the quotient decayed to 0.0; both    *)
(* are monotone in the significand, so each is a comparison with the       *)
(* significand at which the IEEE-754 round-to-nearest result changes.      *)

Pow10Last == 308

\* InfiniteFrom[k] is the least significand for which
\* (significand as f64) * POW10[Pow10Last - Len(InfiniteFrom) + k] is
\* infinite; below that index of POW10 no u64 significand overflows
InfiniteFrom ==
    << <<"1", "7", "9", "7", "6", "9", "3", "1", "3", "4", "8", "6", "2", "3", "1", "5", "6", "2", "2", "5">>,
       <<"1", "7", "9", "7", "6", "9", "3", "1", "3", "4", "8", "6", "2", "3", "1", "5", "6", "4", "9">>,
       <<"1", "7", "9", "7", "6", "9", "3", "1", "3", "4", "8", "6", "2", "3", "1", "6", "0", "0">>,
       <<"1", "7", "9", "7", "6", "9", "3", "1", "3", "4", "8", "6", "2", "3", "1", "5", "8">>,
       <<"1", "7", "9", "7", "6", "9", "3", "1", "3", "4", "8", "6", "2", "3", "1", "6">>,
       <<"1", "7", "9", "7", "6", "9", "3", "1", "3", "4", "8", "6", "2", "3", "2">>,
       <<"1", "7", "9", "7", "6", "9", "3", "1", "3", "4", "8", "6", "2", "4">>,
       <<"1", "7", "9", "7", "6", "9", "3", "1", "3", "4", "8", "6", "3">>,
       <<"1", "7", "9", "7", "6", "9", "3", "1", "3", "4", "8", "7">>,
       <<"1", "7", "9", "7", "6", "9", "3", "1", "3", "4", "9">>,
       <<"1", "7", "9", "7", "6", "9", "3", "1", "3", "5">>,
       <<"1", "7", "9", "7", "6", "9", "3", "1", "4">>,
       <<"1", "7", "9", "7", "6", "9", "3", "2">>,
       <<"1", "7", "9", "7", "6", "9", "4">>,
       <<"1", "7", "9", "7", "7", "0">>,
       <<"1", "7", "9", "7", "7">>,
       <<"1", "7", "9", "8">>,
       <<"1", "8", "0">>,
       <<"1", "8">>,
       <<"2">> >>

\* f *= pow; f.is_infinite(), for exponent in 0..Pow10Last
IsInfinite(significand, exponent) ==
    /\ exponent > Pow10Last - Len(InfiniteFrom)
    /\ NatGe(significand, InfiniteFrom[exponent - (Pow10Last - Len(InfiniteFrom))])

\* ZeroUpTo[k] is the greatest significand for which
\* ((significand as f64) / 1e308) / POW10[k] is 0.0; past the end of the
\* table every u64 significand gives 0.0
ZeroUpTo ==
    << <<"0">>,
       <<"0">>,
       <<"0">>,
       <<"0">>,
       <<"0">>,
       <<"0">>,
       <<"0">>,
       <<"0">>,
       <<"0">>,
       <<"0">>,
       <<"0">>,
       <<"0">>,
       <<"0">>,
       <<"0">>,
       <<"0">>,
       <<"2">>,
       <<"2", "4">>,
       <<"2", "4", "7">>,
       <<"2", "4", "7", "0">>,
       <<"2", "4", "7", "0", "3">>,
       <<"2", "4", "7", "0", "3", "2">>,
       <<"2", "4", "7", "0", "3", "2", "8">>,
       <<"2", "4", "7", "0", "3", "2", "8", "2">>,
       <<"2", "4", "7", "0", "3", "2", "8", "2", "2">>,
       <<"2", "4", "7", "0", "3", "2", "8", "2", "2", "9">>,
       <<"2", "4", "7", "0", "3", "2", "8", "2", "2", "9", "2">>,
       <<"2", "4", "7", "0", "3", "2", "8", "2", "2", "9", "2", "0">>,
       <<"2", "4", "7", "0", "3", "2", "8", "2", "2", "9", "2", "0", "6">>,
       <<"2", "4", "7", "0", "3", "2", "8", "2", "2", "9", "2", "0", "6", "2">>,
       <<"2", "4", "7", "0", "3", "2", "8", "2", "2", "9", "2", "0", "6", "2", "3">>,
       <<"2", "4", "7", "0", "3", "2", "8", "2", "2", "9", "2", "0", "6", "2", "3", "2">>,
       <<"2", "4", "7", "0", "3", "2", "8", "2", "2", "9", "2", "0", "6", "2", "3", "3", "0">>,
       <<"2", "4", "7", "0", "3", "2", "8", "2", "2", "9", "2", "0", "6", "2", "3", "2", "7", "9">>,
       <<"2", "4", "7", "0", "3", "2", "8", "2", "2", "9", "2", "0", "6", "2", "3", "2", "8", "3", "1">> >>

\* f == 0.0 once the divisions for 10^exponent are done, exponent < 0: a
\* quotient by one entry of POW10 alone is 0.0 for the significand 0 only
IsZeroF(significand, exponent) ==
    \/ significand = Zero
    \/ exponent < -(Pow10Last + Len(ZeroUpTo))
    \/ /\ exponent < -Pow10Last
       /\ NatGe(ZeroUpTo[-Pow10Last - exponent], significand)


\* f is (significand as f64) divided by 1e308 for each Pow10Last in -scale.
\* exponent.abs() of i32::MIN overflows: a build with overflow checks
\* panics, any other wraps to i32::MIN, which as usize is past POW10.
RECURSIVE F64Loop(_, _, _, _, _)
F64Loop(p, pos, significand, scale, exponent) ==
    IF exponent = I32Min THEN
        IF significand = Zero THEN Ok(Overflowed(p), F64(pos, Zero, 0))
        ELSE F64Loop(Overflowed(p), pos, significand,
                     scale - Pow10Last, exponent + Pow10Last)
    ELSE IF (IF exponent < 0 THEN -exponent ELSE exponent) <= Pow10Last THEN
        IF exponent >= 0 THEN
            IF IsInfinite(significand, exponent)
            THEN Err(p, "NumberOutOfRange", ErrorPos(p))
            ELSE Ok(p, F64(pos, significand, scale + exponent))
        ELSE IF IsZeroF(significand, scale + exponent)
             THEN Ok(p, F64(pos, Zero, 0))
             ELSE Ok(p, F64(pos, significand, scale + exponent))
    ELSE
        \* f == 0.0: the significand is 0, or two divisions by 1e308 are done
        IF significand = Zero \/ scale <= -2 * Pow10Last THEN Ok(p, F64(pos, Zero, 0))
        ELSE IF exponent >= 0 THEN Err(p, "NumberOutOfRange", ErrorPos(p))
        ELSE F64Loop(p, pos, significand, scale - Pow10Last, exponent + Pow10Last)

f64_from_parts(p, pos, significand, exponent) ==
    F64Loop(p, pos, significand, 0, exponent)

----------------------------------------------------------------------------
(* Keywords and numbers *)

\* the terminator test that ends parse_ident and parse_number
Terminated(p, ret) ==
    Bind(parse_whitespace_until_newline(p), LAMBDA w:
        IF w.err # "" THEN Err(w.p, "Io", NoPos)
        ELSE IF w.nl THEN Ok(w.p, ret)
        ELSE IF w.c \in {",", "]", "}"} THEN Ok(w.p, ret)
        ELSE Err(w.p, "UnexpectedCharacter", ErrorPos(w.p)))

RECURSIVE IdentLoop(_, _, _)
IdentLoop(p, ident, k) ==
    IF k > Len(ident) THEN Terminated(p, NoVal)
    ELSE LET r == next_char(p) IN
         IF r.c = IoErr THEN Err(r.p, "Io", NoPos)
         ELSE IF r.c # ident[k] THEN Err(r.p, "ExpectedSomeIdent", ErrorPos(r.p))
         ELSE IdentLoop(r.p, ident, k + 1)

parse_ident(p, ident) == IdentLoop(p, ident, 1)

parse_exponent_overflow(p, pos, significand, pos_exp) ==
    LET RECURSIVE Rest(_)
        Rest(q) ==
            IF Peek(q) = IoErr THEN IoFail(q)
            ELSE IF peek_or_null(q) \in Digits THEN Rest(eat_char(q))
            ELSE Ok(q, F64(pos, Zero, 0))
    IN  IF significand # Zero /\ pos_exp
        THEN Err(p, "NumberOutOfRange", ErrorPos(p))
        ELSE Rest(p)

RECURSIVE ExpLoop(_, _, _, _, _, _)
ExpLoop(p, pos, significand, starting_exp, pos_exp, exp) ==
    IF Peek(p) = IoErr THEN IoFail(p)
    ELSE IF peek_or_null(p) \in Digits THEN
        LET digit == DigitVal(peek_or_null(p))
            p1 == eat_char(p)
        IN  IF OverflowI32(exp, digit)
            THEN parse_exponent_overflow(p1, pos, significand, pos_exp)
            ELSE ExpLoop(p1, pos, significand, starting_exp, pos_exp, exp * 10 + digit)
    ELSE f64_from_parts(p, pos, significand,
                        IF pos_exp THEN saturating_add(starting_exp, exp)
                        ELSE saturating_sub(starting_exp, exp))

\* a faulty variant: an exponent marker with no digit is an exponent of zero
parse_exponent_no_digit(p, pos, significand, starting_exp) ==
    LET p1 == eat_char(p)
        c == peek_or_null(p1)
        pos_exp == c # "-"
        p2 == IF c \in {"+", "-"} THEN eat_char(p1) ELSE p1
    IN  IF c = IoErr THEN IoFail(p1)
        ELSE ExpLoop(p2, pos, significand, starting_exp, pos_exp, 0)

parse_exponent(p, pos, significand, starting_exp) ==
    LET p1 == eat_char(p)
        c == peek_or_null(p1)
        pos_exp == c # "-"
        p2 == IF c \in {"+", "-"} THEN eat_char(p1) ELSE p1
        r == next_char_or_null(p2)
    IN  IF c = IoErr THEN IoFail(p1)
        ELSE IF r.c = IoErr THEN Err(r.p, "Io", NoPos)
        ELSE IF r.c \in Digits
        THEN ExpLoop(r.p, pos, significand, starting_exp, pos_exp, DigitVal(r.c))
        ELSE Err(r.p, "InvalidNumber", ErrorPos(r.p))

RECURSIVE DecimalLoop(_, _, _, _, _, _)
DecimalLoop(p, pos, significand, exponent, at_least_one_digit, ignoring) ==
    IF Peek(p) = IoErr THEN IoFail(p)
    ELSE IF peek_or_null(p) \in Digits THEN
        LET c == peek_or_null(p)
            p1 == eat_char(p)
        IN  IF ignoring \/ OverflowU64(significand, c)
            THEN DecimalLoop(p1, pos, significand, exponent, TRUE, TRUE)
            \* exponent -= 1 on an i32: at i32::MIN it overflows, and wraps to
            \* i32::MAX where the build does not check
            ELSE IF exponent = I32Min
            THEN DecimalLoop(Overflowed(p1), pos, MulAdd(significand, c), I32Max, TRUE, FALSE)
            ELSE DecimalLoop(p1, pos, MulAdd(significand, c), exponent - 1, TRUE, FALSE)
    ELSE IF ~at_least_one_digit THEN Err(p, "InvalidNumber", PeekErrorPos(p))
    ELSE IF peek_or_null(p) \in {"e", "E"}
    THEN parse_exponent(p, pos, significand, exponent)
    ELSE f64_from_parts(p, pos, significand, exponent)

parse_decimal(p, pos, significand, exponent) ==
    DecimalLoop(eat_char(p), pos, significand, exponent, FALSE, FALSE)

\* a faulty variant: the float is chosen when the negation is non-negative
parse_number_non_negative(p, pos, significand) ==
    LET c == peek_or_null(p) IN
    IF c = IoErr THEN IoFail(p)
    ELSE IF c \in {".", "e", "E"} THEN
        Bind(IF c = "." THEN parse_decimal(p, pos, significand, 0)
             ELSE parse_exponent(p, pos, significand, 0),
             LAMBDA f: IF f.err # "" THEN f ELSE Terminated(f.p, f.v))
    ELSE IF pos THEN Terminated(p, U64(significand))
    ELSE IF significand = Zero \/ NatGt(significand, I64MinAbs)
    THEN Terminated(p, F64(FALSE, significand, 0))
    ELSE Terminated(p, I64(significand))

parse_number(p, pos, significand) ==
    LET c == peek_or_null(p) IN
    IF c = IoErr THEN IoFail(p)
    ELSE IF c \in {".", "e", "E"} THEN
        Bind(IF c = "." THEN parse_decimal(p, pos, significand, 0)
             ELSE parse_exponent(p, pos, significand, 0),
             LAMBDA f: IF f.err # "" THEN f ELSE Terminated(f.p, f.v))
    ELSE IF pos THEN Terminated(p, U64(significand))
    \* neg = (significand as i64).wrapping_neg() is positive exactly when
    \* the significand exceeds 2^63
    ELSE IF NatGt(significand, I64MinAbs) THEN Terminated(p, F64(FALSE, significand, 0))
    ELSE Terminated(p, I64(significand))

\* exponent += 1 is an addition on an i32: at i32::MAX it overflows, and
\* wraps to i32::MIN where the build does not check
RECURSIVE parse_long_integer(_, _, _, _)
parse_long_integer(p, pos, significand, exponent) ==
    LET c == peek_or_null(p) IN
    IF c = IoErr THEN IoFail(p)
    ELSE IF c \in Digits THEN
        IF exponent = I32Max
        THEN parse_long_integer(Overflowed(eat_char(p)), pos, significand, I32Min)
        ELSE parse_long_integer(eat_char(p), pos, significand, exponent + 1)
    ELSE IF c = "." THEN parse_decimal(p, pos, significand, exponent)
    ELSE IF c \in {"e", "E"} THEN parse_exponent(p, pos, significand, exponent)
    ELSE f64_from_parts(p, pos, significand, exponent)

RECURSIVE IntegerLoop(_, _, _)
IntegerLoop(p, pos, res) ==
    LET c == peek_or_null(p) IN
    IF c = IoErr THEN IoFail(p)
    ELSE IF c \in Digits THEN
        IF OverflowU64(res, c)
        THEN parse_long_integer(eat_char(p), pos, res, 1)
        ELSE IntegerLoop(eat_char(p), pos, MulAdd(res, c))
    ELSE parse_number(p, pos, res)

parse_integer(p, pos) ==
    LET c == peek_or_null(p)
        p1 == next_char(p).p
    IN  IF c = IoErr THEN IoFail(p)
        ELSE IF c = "0" THEN
            IF Peek(p1) = IoErr THEN IoFail(p1)
            ELSE IF peek_or_null(p1) \in Digits
            THEN Err(p1, "InvalidNumber", PeekErrorPos(p1))
            ELSE parse_number(p1, pos, Zero)
        ELSE IF c \in Digits THEN IntegerLoop(p1, pos, <<c>>)
        ELSE Err(p, "InvalidNumber", ErrorPos(p))

----------------------------------------------------------------------------
(* The string scanners of the input source (read.rs).  Escape decoding is  *)
(* outside the model: the inputs hold no backslash.                        *)

\* the bytes that end a bare scalar and a bare member name
BareTerminators == {" ", "\t", "\n", "\r", ",", "]", "}", ":"}

RECURSIVE NoneStrLoop(_, _)
NoneStrLoop(p, acc) ==
    LET c == Peek(p) IN
    IF c = IoErr THEN IoFail(p)
    ELSE IF c = EOF \/ c \in BareTerminators THEN Ok(p, Str(acc))
    ELSE NoneStrLoop([p EXCEPT !.i = @ + 1], Append(acc, c))

parse_none_str(p) == NoneStrLoop(p, <<>>)
parse_member_name(p) == NoneStrLoop(p, <<>>)

RECURSIVE QuotedLoop(_, _, _)
QuotedLoop(p, quote, acc) ==
    LET c == Peek(p)
        p1 == [p EXCEPT !.i = @ + 1]
    IN  IF c = IoErr THEN IoFail(p)
        ELSE IF c = EOF THEN Err(p, "EofWhileParsingString", ErrorPos(p))
        ELSE IF c = quote THEN Ok(p1, Str(acc))
        ELSE IF c \in {"\n", "\r", "\t"}
        THEN Err(p1, "ControlCharacterWhileParsingString", ErrorPos(p1))
        ELSE QuotedLoop(p1, quote, Append(acc, c))

parse_double_str(p) == QuotedLoop(p, "\"", <<>>)
parse_single_str(p) == QuotedLoop(p, "'", <<>>)

\* self.str_buf.clear()
ClearBuf(p) == [p EXCEPT !.buf = <<>>]

----------------------------------------------------------------------------
(* Closing a container *)

parse_object_colon(p) ==
    LET w == parse_whitespace(p) IN
    IF w.err # "" THEN Err(w.p, "Io", NoPos)
    ELSE IF w.c = ":" THEN Ok(eat_char(w.p), NoVal)
    ELSE IF w.c = EOF THEN Err(w.p, "EofWhileParsingObject", PeekErrorPos(w.p))
    ELSE Err(w.p, "ExpectedColon", PeekErrorPos(w.p))

end_seq(p) ==
    LET w == parse_whitespace(p)
        p1 == eat_char(w.p)
        w1 == parse_whitespace(p1)
    IN  IF w.err # "" THEN Err(w.p, "Io", NoPos)
        ELSE IF w.c = "]" THEN Ok(p1, NoVal)
        ELSE IF w.c = "," THEN
            IF w1.err = "" /\ w1.c = "]"
            THEN Err(w1.p, "ExtraComma", PeekErrorPos(w1.p))
            ELSE Err(w1.p, "TrailingCharacters", PeekErrorPos(w1.p))
        ELSE IF w.c = EOF THEN Err(w.p, "EofWhileParsingList", PeekErrorPos(w.p))
        ELSE Err(w.p, "TrailingCharacters", PeekErrorPos(w.p))

end_map(p) ==
    LET w == parse_whitespace(p) IN
    IF w.err # "" THEN Err(w.p, "Io", NoPos)
    ELSE IF w.c = "}" THEN Ok(eat_char(w.p), NoVal)
    ELSE IF w.c = "," THEN Err(w.p, "ExtraComma", PeekErrorPos(w.p))
    ELSE IF w.c = EOF THEN Err(w.p, "EofWhileParsingObject", PeekErrorPos(w.p))
    ELSE Err(w.p, "TrailingCharacters", PeekErrorPos(w.p))

----------------------------------------------------------------------------
(* The consumers.  "Value" accepts every event (serde_json::Value); the    *)
(* typed consumers are (), bool, i32, f64, String, Option<i32> and         *)
(* Vec<i32>.  The consumers of deserialize_map, deserialize_struct,        *)
(* deserialize_bytes and deserialize_enum accept what Value accepts: every *)
(* element, member value, variant name and variant content is read as a    *)
(* Value; a map's keys are read as String or as i32.  An error made by a   *)
(* consumer has no position (NoPos) until fix_position gives it one.       *)
(* deserialize_char and deserialize_identifier are deserialize_str,        *)
(* deserialize_unit_struct is deserialize_unit, deserialize_tuple and      *)
(* deserialize_tuple_struct are deserialize_seq, deserialize_byte_buf is   *)
(* deserialize_bytes, deserialize_f32 and the integers of the other widths *)
(* are deserialize_number, and deserialize_newtype_struct hands the        *)
(* Deserializer back to the consumer.                                      *)

\* Error::fix_position: an error without position gets the position
\* self.error() gives, that of the Deserializer the call returns
fix_position(r) ==
    Bind(r, LAMBDA e:
        IF e.err # "" /\ e.epos = NoPos THEN [e EXCEPT !.epos = ErrorPos(e.p)] ELSE e)

I32MaxDigits == <<"2", "1", "4", "7", "4", "8", "3", "6", "4", "7">>
I32MinAbsDigits == <<"2", "1", "4", "7", "4", "8", "3", "6", "4", "8">>

\* the i32 visitor: visit_u64, visit_i64, visit_f64, visit_str
VisitI32(p, v) ==
    IF v.t = "U64" THEN
        IF NatGt(v.s, I32MaxDigits) THEN Err(p, "InvalidValue", NoPos) ELSE Ok(p, v)
    ELSE IF v.t = "I64" THEN
        IF NatGt(v.s, I32MinAbsDigits) THEN Err(p, "InvalidValue", NoPos) ELSE Ok(p, v)
    ELSE Err(p, "InvalidType", NoPos)

\* the f64 visitor: visit_u64 and visit_i64 convert (v as f64), so that the
\* integer 0 of a `-0` becomes +0.0; visit_f64 takes the float, -0.0
\* included; visit_str is not the type expected
VisitF64(p, v) ==
    IF v.t = "I64" THEN Ok(p, F64(v.s = Zero, v.s, v.e))
    ELSE IF v.t \in {"U64", "F64"} THEN Ok(p, F64(v.pos, v.s, v.e))
    ELSE Err(p, "InvalidType", NoPos)

\* the error peek_invalid_type makes once it has parsed what it found
InvalidType(r) ==
    IF r.err # "" THEN r ELSE fix_position(Err(r.p, "InvalidType", NoPos))

peek_invalid_type(p) ==
    LET c == IF Peek(p) \in {IoErr, EOF} THEN NUL ELSE Peek(p)
        p0 == IF Peek(p) = IoErr THEN Failed(p) ELSE p
    IN  \* b'n', b't', b'f': eat_char, parse_ident of the keyword's tail
        IF c \in {"n", "t", "f"}
        THEN InvalidType(parse_ident(eat_char(p0),
                            IF c = "n" THEN <<"u", "l", "l">>
                            ELSE IF c = "t" THEN <<"r", "u", "e">>
                            ELSE <<"a", "l", "s", "e">>))
        \* b'-': eat_char, parse_integer(false); a digit: parse_integer(true)
        ELSE IF c = "-" \/ c \in Digits
        THEN InvalidType(parse_integer(IF c = "-" THEN eat_char(p0) ELSE p0, c # "-"))
        \* a quote: eat_char, str_buf.clear(), parse_double_str or parse_single_str
        ELSE IF c \in {"\"", "'"}
        THEN InvalidType(IF c = "\""
                         THEN parse_double_str(ClearBuf(eat_char(p0)))
                         ELSE parse_single_str(ClearBuf(eat_char(p0))))
        ELSE IF c \in {"[", "{"} THEN InvalidType(Ok(p0, NoVal))
        ELSE Err(p0, "ExpectedSomeValue", PeekErrorPos(p0))

\* the `-`/digit arms of deserialize_any: parse with capture on, and on any
\* failure emit the captured bytes followed by a bare scalar
NumberOrString(p, pos) ==
    Bind(parse_integer(IF pos THEN [p EXCEPT !.buf = <<>>, !.cap = TRUE]
                       ELSE eat_char([p EXCEPT !.buf = <<>>, !.cap = TRUE]), pos),
         LAMBDA r:
            IF r.err = "" THEN Ok([r.p EXCEPT !.cap = FALSE], r.v)
            ELSE Bind(parse_none_str([r.p EXCEPT !.cap = FALSE, !.buf = <<>>]),
                      LAMBDA s: IF s.err # "" THEN s
                                \* captured_num + s
                                ELSE Ok(s.p, Str(r.p.buf \o s.v.s))))

\* the `n`/`t`/`f` arms of deserialize_any: try the keyword, and on any
\* failure emit the keyword's text followed by a bare scalar
IdentOrString(p, tail, literal, value) ==
    Bind(parse_ident(eat_char(p), tail), LAMBDA r:
        IF r.err = "" THEN Ok(r.p, value)
        ELSE Bind(parse_none_str(ClearBuf(r.p)),
                  LAMBDA s: IF s.err # "" THEN s ELSE Ok(s.p, Str(literal \o s.v.s))))

\* remaining_depth -= 1 on a u8: at 0 the subtraction overflows, and wraps to
\* 255 where the build does not check
DecDepth(p) ==
    IF p.depth = 0 THEN [Overflowed(p) EXCEPT !.depth = 255]
    ELSE [p EXCEPT !.depth = @ - 1]

\* remaining_depth += 1 on a u8: at 255 the addition overflows, and wraps to 0
IncDepth(p) ==
    IF p.depth = 255 THEN [Overflowed(p) EXCEPT !.depth = 0]
    ELSE [p EXCEPT !.depth = @ + 1]

\* match (ret, self.end_seq()) / match (ret, self.end_map())
Closed(ret, end) ==
    IF ret.err # "" THEN [ret EXCEPT !.p = end.p]
    ELSE IF end.err # "" THEN end
    ELSE Ok(end.p, ret.v)

RECURSIVE Deserialize(_, _)
RECURSIVE deserialize_any(_)
RECURSIVE deserialize_seq(_, _)
RECURSIVE deserialize_map(_, _)
RECURSIVE deserialize_struct(_)
RECURSIVE deserialize_bytes(_)
RECURSIVE deserialize_enum(_, _)
RECURSIVE next_element_seed(_, _)
RECURSIVE visit_seq(_, _, _)
RECURSIVE next_value_seed(_, _)
RECURSIVE visit_map(_, _, _)
RECURSIVE visit_enum(_, _, _)

\* MapKey::deserialize_any, called after next_key_seed has peeked a byte
MapKey_deserialize_any(p) ==
    LET c == peek_or_null(p) IN
    IF c = IoErr THEN IoFail(p)
    ELSE IF c = "\"" THEN parse_double_str(ClearBuf(eat_char(p)))
    ELSE IF c = "'" THEN parse_single_str(ClearBuf(eat_char(p)))
    ELSE parse_member_name(ClearBuf(p))

\* str::parse::<i32> on the bytes s: an optional sign and decimal digits
\* that make a number an i32 holds; NoVal is Err
ParseI32(s) ==
    LET RECURSIVE Strip(_)
        Strip(d) == IF Len(d) > 1 /\ Head(d) = "0" THEN Strip(Tail(d)) ELSE d
        digits == IF s # <<>> /\ Head(s) \in {"+", "-"} THEN Tail(s) ELSE s
        n == Strip(digits)
    IN  IF digits = <<>> \/ \E k \in 1..Len(digits) : digits[k] \notin Digits THEN NoVal
        ELSE IF Head(s) = "-" THEN
            IF NatGt(n, I32MinAbsDigits) THEN NoVal
            ELSE IF n = Zero THEN U64(Zero) ELSE I64(n)
        ELSE IF NatGt(n, I32MaxDigits) THEN NoVal ELSE U64(n)

\* MapKey::deserialize_i32 (deserialize_integer_key!): the key's text, quoted
\* or bare, then visit_i32 of the integer it parses to, or else visit_str
MapKey_deserialize_i32(p) ==
    LET c == Peek(p) IN
    IF c = IoErr THEN IoFail(p)
    ELSE IF c = EOF THEN Err(p, "EofWhileParsingObject", PeekErrorPos(p))
    ELSE Bind(IF c = "\"" THEN parse_double_str(ClearBuf(eat_char(p)))
              ELSE IF c = "'" THEN parse_single_str(ClearBuf(eat_char(p)))
              ELSE parse_none_str(ClearBuf(p)),
              LAMBDA string:
                IF string.err # "" THEN string
                ELSE IF ParseI32(string.v.s) # NoVal
                THEN Ok(string.p, ParseI32(string.v.s))
                ELSE VisitI32(string.p, string.v))

\* MapAccess::next_key_seed for a key of the type kty; a value of NoVal is
\* Ok(None)
next_key_seed(p, kty) ==
    LET w == parse_whitespace(p) IN
    IF w.err # "" THEN Err(w.p, "Io", NoPos)
    ELSE IF w.c = "}" THEN Ok(w.p, NoVal)
    ELSE IF w.c = "," THEN Err(w.p, "ExtraComma", PeekErrorPos(w.p))
    ELSE IF w.c = EOF THEN Err(w.p, "EofWhileParsingObject", PeekErrorPos(w.p))
    ELSE IF kty = "I32" THEN MapKey_deserialize_i32(w.p)
    ELSE MapKey_deserialize_any(w.p)

\* a faulty variant: a newline does not stand for a comma
SeparatedByCommaOnly(ret, close) ==
    Bind(parse_whitespace_get_newline(ret.p), LAMBDA w:
        IF w.err # "" THEN Err(w.p, "Io", NoPos)
        ELSE IF w.c = EOF THEN Err(w.p, "EofWhileParsingList", PeekErrorPos(w.p))
        ELSE IF w.c = "," THEN [ret EXCEPT !.p = eat_char(w.p)]
        ELSE IF w.c # close
        THEN Err(w.p, "ExpectedListCommaOrEnd", PeekErrorPos(w.p))
        ELSE [ret EXCEPT !.p = w.p])

\* the separator test after an element or a member value
Separated(ret, close) ==
    Bind(parse_whitespace_get_newline(ret.p), LAMBDA w:
        IF w.err # "" THEN Err(w.p, "Io", NoPos)
        ELSE IF w.c = EOF THEN Err(w.p, "EofWhileParsingList", PeekErrorPos(w.p))
        ELSE IF w.c = "," THEN [ret EXCEPT !.p = eat_char(w.p)]
        ELSE IF w.c # close /\ ~w.nl
        THEN Err(w.p, "ExpectedListCommaOrEnd", PeekErrorPos(w.p))
        ELSE [ret EXCEPT !.p = w.p])

next_value_seed(p, ty) ==
    Bind(parse_object_colon(p), LAMBDA colon:
        IF colon.err # "" THEN colon
        ELSE Bind(Deserialize(colon.p, ty), LAMBDA ret: Separated(ret, "}")))

\* SeqAccess::next_element_seed; a value of NoVal is Ok(None)
next_element_seed(p, ty) ==
    Bind(parse_whitespace(p), LAMBDA w:
        IF w.err # "" THEN Err(w.p, "Io", NoPos)
        ELSE IF w.c = "]" THEN Ok(w.p, NoVal)
        ELSE IF w.c = "," THEN Err(w.p, "ExtraComma", PeekErrorPos(w.p))
        ELSE Bind(Deserialize(w.p, ty), LAMBDA ret: Separated(ret, "]")))

\* the consumer's visit_seq: elements until the access reports the end
visit_seq(p, ty, acc) ==
    Bind(next_element_seed(p, ty), LAMBDA r:
        IF r.err # "" THEN r
        ELSE IF r.v = NoVal THEN Ok(r.p, SeqVal(acc))
        ELSE visit_seq(r.p, ty, Append(acc, r.v)))

\* the consumer's visit_map: key, value, key, value, ... until the end
visit_map(p, kty, acc) ==
    Bind(next_key_seed(p, kty), LAMBDA k:
        IF k.err # "" THEN k
        ELSE IF k.v = NoVal THEN Ok(k.p, MapVal(acc))
        ELSE Bind(next_value_seed(k.p, "Value"), LAMBDA v:
                IF v.err # "" THEN v
                ELSE visit_map(v.p, kty, acc \o <<k.v, v.v>>)))

\* the `[` arm: descend, visit, restore the budget, close
SeqArm(q, ty) ==
    Bind(DecDepth(q), LAMBDA d:
        IF d.depth = 0 THEN Err(d, "RecursionLimitExceeded", PeekErrorPos(d))
        ELSE Bind(visit_seq(eat_char(d), ty, <<>>), LAMBDA ret:
                Bind(end_seq(IncDepth(ret.p)), LAMBDA e: Closed(ret, e))))

\* the `{` arm: descend, visit, restore the budget, close
MapArm(q, kty) ==
    Bind(DecDepth(q), LAMBDA d:
        IF d.depth = 0 THEN Err(d, "RecursionLimitExceeded", PeekErrorPos(d))
        ELSE Bind(visit_map(eat_char(d), kty, <<>>), LAMBDA ret:
                Bind(end_map(IncDepth(ret.p)), LAMBDA e: Closed(ret, e))))

\* Every deserialize_* method below but deserialize_option, deserialize_enum
\* and deserialize_ignored_any ends in fix_position of the error its match
\* made: a consumer's error, the error of a container's arm, the error of
\* peek_invalid_type.  What try! or return handed out before (the blanks,
\* the end of the input, a scalar's parse) does not pass through it.
\* The arm the typed methods share, `_ => Err(self.peek_invalid_type(..))`
\* and the fix_position after it, is written once, as Deserialize for
\* "Unexpected".

deserialize_any(p) ==
    Bind(parse_whitespace(p), LAMBDA w:
        IF w.err # "" THEN Err(w.p, "Io", NoPos)
        ELSE IF w.c = EOF THEN Err(w.p, "EofWhileParsingValue", PeekErrorPos(w.p))
        ELSE IF w.c = "n"
        THEN IdentOrString(w.p, <<"u", "l", "l">>, <<"n", "u", "l", "l">>, Unit)
        ELSE IF w.c = "t"
        THEN IdentOrString(w.p, <<"r", "u", "e">>, <<"t", "r", "u", "e">>, Bool(TRUE))
        ELSE IF w.c = "f"
        THEN IdentOrString(w.p, <<"a", "l", "s", "e">>, <<"f", "a", "l", "s", "e">>, Bool(FALSE))
        ELSE IF w.c = "-" THEN NumberOrString(w.p, FALSE)
        ELSE IF w.c \in Digits THEN NumberOrString(w.p, TRUE)
        ELSE IF w.c = "\"" THEN parse_double_str(ClearBuf(eat_char(w.p)))
        ELSE IF w.c = "'" THEN parse_single_str(ClearBuf(eat_char(w.p)))
        ELSE IF w.c \in {"[", "{"}
        THEN fix_position(IF w.c = "[" THEN SeqArm(w.p, "Value")
                          ELSE MapArm(w.p, "String"))
        ELSE parse_none_str(ClearBuf(w.p)))

deserialize_seq(p, ty) ==
    Bind(parse_whitespace(p), LAMBDA w:
        IF w.err # "" THEN Err(w.p, "Io", NoPos)
        ELSE IF w.c = EOF THEN Err(w.p, "EofWhileParsingValue", PeekErrorPos(w.p))
        ELSE IF w.c = "[" THEN fix_position(SeqArm(w.p, ty))
        ELSE Deserialize(w.p, "Unexpected"))

\* deserialize_map, the keys of the type kty
deserialize_map(p, kty) ==
    Bind(parse_whitespace(p), LAMBDA w:
        IF w.err # "" THEN Err(w.p, "Io", NoPos)
        ELSE IF w.c = EOF THEN Err(w.p, "EofWhileParsingValue", PeekErrorPos(w.p))
        ELSE IF w.c = "{" THEN fix_position(MapArm(w.p, kty))
        ELSE Deserialize(w.p, "Unexpected"))

\* deserialize_struct: the fields as an array or as an object
deserialize_struct(p) ==
    Bind(parse_whitespace(p), LAMBDA w:
        IF w.err # "" THEN Err(w.p, "Io", NoPos)
        ELSE IF w.c = EOF THEN Err(w.p, "EofWhileParsingValue", PeekErrorPos(w.p))
        ELSE IF w.c \in {"[", "{"}
        THEN fix_position(IF w.c = "[" THEN SeqArm(w.p, "Value")
                          ELSE MapArm(w.p, "String"))
        ELSE Deserialize(w.p, "Unexpected"))

\* deserialize_bytes and deserialize_byte_buf: a quoted string for
\* visit_bytes (parse_double_str_raw, parse_single_str_raw), or an array
deserialize_bytes(p) ==
    Bind(parse_whitespace(p), LAMBDA w:
        IF w.err # "" THEN Err(w.p, "Io", NoPos)
        ELSE IF w.c = EOF THEN Err(w.p, "EofWhileParsingValue", PeekErrorPos(w.p))
        ELSE IF w.c = "\"" THEN parse_double_str(ClearBuf(eat_char(w.p)))
        ELSE IF w.c = "'" THEN parse_single_str(ClearBuf(eat_char(w.p)))
        ELSE IF w.c = "[" THEN fix_position(Deserialize(w.p, "VecValue"))
        ELSE Deserialize(w.p, "Unexpected"))

\* the consumer's visit_enum.  variant_seed reads the variant's name, and
\* inside braces (VariantAccess) the colon after it; then the content of
\* the type the variant has: unit_variant ("Unit"), newtype_variant_seed
\* ("Value"), tuple_variant ("VecValue") or struct_variant ("Struct").
\* A lone string (UnitVariantAccess) is a unit variant and nothing else.
visit_enum(p, content, braced) ==
    Bind(Deserialize(p, "Value"), LAMBDA name:
        IF name.err # "" THEN name
        ELSE IF ~braced THEN
            IF content = "Unit" THEN Ok(name.p, SeqVal(<<name.v, Unit>>))
            ELSE Err(name.p, "InvalidType", NoPos)
        ELSE Bind(parse_object_colon(name.p), LAMBDA colon:
                IF colon.err # "" THEN colon
                ELSE Bind(Deserialize(colon.p, content), LAMBDA val:
                        IF val.err # "" THEN val
                        ELSE Ok(val.p, SeqVal(<<name.v, val.v>>)))))

\* deserialize_enum for an enum whose variants have the type content; an
\* error of visit_enum returns before remaining_depth += 1
deserialize_enum(p, content) ==
    Bind(parse_whitespace(p), LAMBDA w:
        IF w.err # "" THEN Err(w.p, "Io", NoPos)
        ELSE IF w.c = "{" THEN
            Bind(DecDepth(w.p), LAMBDA d:
                IF d.depth = 0 THEN Err(d, "RecursionLimitExceeded", PeekErrorPos(d))
                ELSE Bind(visit_enum(eat_char(d), content, TRUE), LAMBDA value:
                        IF value.err # "" THEN value
                        ELSE Bind(parse_whitespace(IncDepth(value.p)), LAMBDA e:
                                IF e.err # "" THEN Err(e.p, "Io", NoPos)
                                ELSE IF e.c = "}" THEN Ok(eat_char(e.p), value.v)
                                ELSE IF e.c = EOF
                                THEN Err(e.p, "EofWhileParsingObject", ErrorPos(e.p))
                                ELSE Err(e.p, "ExpectedSomeValue", ErrorPos(e.p)))))
        ELSE IF w.c = "\"" THEN visit_enum(w.p, content, FALSE)
        ELSE IF w.c = EOF THEN Err(w.p, "EofWhileParsingValue", PeekErrorPos(w.p))
        ELSE Err(w.p, "ExpectedSomeValue", PeekErrorPos(w.p)))

\* a number or a bare string handed to the visitor of the type ty
Visited(r, ty) ==
    IF r.err # "" THEN r
    ELSE fix_position(IF ty = "F64" THEN VisitF64(r.p, r.v) ELSE VisitI32(r.p, r.v))

\* deserialize_i32 and deserialize_f64: deserialize_number with the visitor
\* of the type ty
deserialize_number(p, ty) ==
    Bind(parse_whitespace(p), LAMBDA w:
        IF w.err # "" THEN Err(w.p, "Io", NoPos)
        ELSE IF w.c = EOF THEN Err(w.p, "EofWhileParsingValue", PeekErrorPos(w.p))
        \* b'-': eat_char, parse_integer(false); a digit: parse_integer(true);
        \* anything else: str_buf.clear(), parse_none_str
        ELSE Visited(IF w.c = "-" \/ w.c \in Digits
                     THEN parse_integer(IF w.c = "-" THEN eat_char(w.p) ELSE w.p, w.c # "-")
                     ELSE parse_none_str(ClearBuf(w.p)), ty))

\* a keyword parsed for a typed consumer
Keyword(r, value) == IF r.err # "" THEN r ELSE Ok(r.p, value)

deserialize_unit(p) ==
    Bind(parse_whitespace(p), LAMBDA w:
        IF w.err # "" THEN Err(w.p, "Io", NoPos)
        ELSE IF w.c = EOF THEN Err(w.p, "EofWhileParsingValue", PeekErrorPos(w.p))
        ELSE IF w.c = "n" THEN Keyword(parse_ident(eat_char(w.p), <<"u", "l", "l">>), Unit)
        ELSE Deserialize(w.p, "Unexpected"))

deserialize_bool(p) ==
    Bind(parse_whitespace(p), LAMBDA w:
        IF w.err # "" THEN Err(w.p, "Io", NoPos)
        ELSE IF w.c = EOF THEN Err(w.p, "EofWhileParsingValue", PeekErrorPos(w.p))
        ELSE IF w.c = "t"
        THEN Keyword(parse_ident(eat_char(w.p), <<"r", "u", "e">>), Bool(TRUE))
        ELSE IF w.c = "f"
        THEN Keyword(parse_ident(eat_char(w.p), <<"a", "l", "s", "e">>), Bool(FALSE))
        ELSE Deserialize(w.p, "Unexpected"))

\* deserialize_str and deserialize_string: a quoted string for visit_str
deserialize_str(p) ==
    Bind(parse_whitespace(p), LAMBDA w:
        IF w.err # "" THEN Err(w.p, "Io", NoPos)
        ELSE IF w.c = EOF THEN Err(w.p, "EofWhileParsingValue", PeekErrorPos(w.p))
        ELSE IF w.c = "\"" THEN parse_double_str(ClearBuf(eat_char(w.p)))
        ELSE IF w.c = "'" THEN parse_single_str(ClearBuf(eat_char(w.p)))
        ELSE Deserialize(w.p, "Unexpected"))

\* deserialize_option: `null` is visit_none, Ok(None) being the value NoVal;
\* anything else, the end of the input too, is visit_some for the type ty
deserialize_option(p, ty) ==
    Bind(parse_whitespace(p), LAMBDA w:
        IF w.err # "" THEN Err(w.p, "Io", NoPos)
        ELSE IF w.c = "n" THEN Keyword(parse_ident(eat_char(w.p), <<"u", "l", "l">>), NoVal)
        ELSE Bind(Deserialize(w.p, ty), LAMBDA some:
                IF some.err # "" THEN some
                ELSE Ok(some.p, Val("Some", <<>>, 0, TRUE, <<some.v>>))))

\* while let b'0'...b'9' = try!(self.peek_or_null()) { self.eat_char(); }
RECURSIVE IgnoreDigits(_)
IgnoreDigits(p) ==
    LET c == peek_or_null(p) IN
    IF c = IoErr THEN IoFail(p)
    ELSE IF c \in Digits THEN IgnoreDigits(eat_char(p))
    ELSE Ok(p, NoVal)

\* the digit that must follow the exponent marker, r being what
\* next_char_or_null returned, then the other exponent digits
ExponentDigits(r) ==
    IF r.c = IoErr THEN Err(r.p, "Io", NoPos)
    ELSE IF r.c \in Digits THEN IgnoreDigits(r.p)
    ELSE Err(r.p, "InvalidNumber", ErrorPos(r.p))

ignore_exponent(p) ==
    LET p1 == eat_char(p)
        c == peek_or_null(p1)
    IN  IF c = IoErr THEN IoFail(p1)
        ELSE ExponentDigits(next_char_or_null(IF c \in {"+", "-"} THEN eat_char(p1) ELSE p1))

\* the end of ignore_decimal, d being what the digit loop returned on from
FractionEnd(d, from) ==
    IF d.err # "" THEN d
    ELSE IF d.p.i = from THEN Err(d.p, "InvalidNumber", PeekErrorPos(d.p))
    ELSE IF Peek(d.p) = IoErr THEN IoFail(d.p)
    ELSE IF Peek(d.p) \in {"e", "E"} THEN ignore_exponent(d.p)
    ELSE d

ignore_decimal(p) == FractionEnd(IgnoreDigits(eat_char(p)), eat_char(p).i)

\* the end of ignore_integer, d being what came before the fraction
IntegerEnd(d) ==
    IF d.err # "" THEN d
    ELSE IF Peek(d.p) = IoErr THEN IoFail(d.p)
    ELSE IF Peek(d.p) = "." THEN ignore_decimal(d.p)
    ELSE IF Peek(d.p) \in {"e", "E"} THEN ignore_exponent(d.p)
    ELSE d

\* ignore_integer once next_char_or_null has returned r
IgnoreInteger(r) ==
    IF r.c = IoErr THEN Err(r.p, "Io", NoPos)
    ELSE IF r.c = "0" THEN
        IF Peek(r.p) = IoErr THEN IoFail(r.p)
        ELSE IF Peek(r.p) \in Digits THEN Err(r.p, "InvalidNumber", PeekErrorPos(r.p))
        ELSE IntegerEnd(Ok(r.p, NoVal))
    ELSE IF r.c \in Digits THEN IntegerEnd(IgnoreDigits(r.p))
    ELSE Err(r.p, "InvalidNumber", ErrorPos(r.p))

ignore_integer(p) == IgnoreInteger(next_char_or_null(p))

\* read.ignore_double_str, ignore_single_str, ignore_none_str and
\* ignore_member_name: the scan of the parsing form, and no event
Ignored(r) == IF r.err # "" THEN r ELSE Ok(r.p, NoVal)

RECURSIVE ignore_value(_)
RECURSIVE ignore_seq(_)
RECURSIVE ignore_map(_)

\* the member name of ignore_map, w being its second parse_whitespace
IgnoreKey(w) ==
    IF w.err # "" THEN Err(w.p, "Io", NoPos)
    ELSE IF w.c = "\"" THEN Ignored(parse_double_str(eat_char(w.p)))
    ELSE IF w.c = "'" THEN Ignored(parse_single_str(eat_char(w.p)))
    ELSE IF w.c = EOF THEN Err(w.p, "EofWhileParsingObject", PeekErrorPos(w.p))
    ELSE Ignored(parse_member_name(w.p))

\* one round of the loop of ignore_seq (close = "]") or of ignore_map once
\* the member name and the colon are read (close = "}"): the value, the
\* separator test, and the next round
IgnoreRound(p, close) ==
    Bind(ignore_value(p), LAMBDA v:
        IF v.err # "" THEN v
        ELSE Bind(Separated(v, close), LAMBDA s:
                IF s.err # "" THEN s
                ELSE IF close = "]" THEN ignore_seq(s.p) ELSE ignore_map(s.p)))

ignore_seq(p) ==
    Bind(parse_whitespace(p), LAMBDA w:
        IF w.err # "" THEN Err(w.p, "Io", NoPos)
        ELSE IF w.c = "]" THEN Ok(eat_char(w.p), NoVal)
        ELSE IF w.c = "," THEN Err(w.p, "ExtraComma", PeekErrorPos(w.p))
        ELSE IgnoreRound(w.p, "]"))

ignore_map(p) ==
    Bind(parse_whitespace(p), LAMBDA w:
        IF w.err # "" THEN Err(w.p, "Io", NoPos)
        ELSE IF w.c = "}" THEN Ok(eat_char(w.p), NoVal)
        ELSE IF w.c = "," THEN Err(w.p, "ExtraComma", PeekErrorPos(w.p))
        ELSE Bind(IgnoreKey(parse_whitespace(w.p)), LAMBDA k:
                IF k.err # "" THEN k
                ELSE Bind(parse_object_colon(k.p), LAMBDA colon:
                        IF colon.err # "" THEN colon
                        ELSE IgnoreRound(colon.p, "}"))))

\* the `[` and `{` arms of ignore_value: descend, skip, restore the budget
IgnoreArm(q, close) ==
    Bind(DecDepth(q), LAMBDA d:
        IF d.depth = 0 THEN Err(d, "RecursionLimitExceeded", PeekErrorPos(d))
        ELSE Bind(IF close = "]" THEN ignore_seq(eat_char(d)) ELSE ignore_map(eat_char(d)),
                  LAMBDA res: [res EXCEPT !.p = IncDepth(@)]))

ignore_value(p) ==
    Bind(parse_whitespace(p), LAMBDA w:
        IF w.err # "" THEN Err(w.p, "Io", NoPos)
        ELSE IF w.c = EOF THEN Err(w.p, "EofWhileParsingValue", PeekErrorPos(w.p))
        ELSE IF w.c = "n" THEN parse_ident(eat_char(w.p), <<"u", "l", "l">>)
        ELSE IF w.c = "t" THEN parse_ident(eat_char(w.p), <<"r", "u", "e">>)
        ELSE IF w.c = "f" THEN parse_ident(eat_char(w.p), <<"a", "l", "s", "e">>)
        ELSE IF w.c = "-" THEN ignore_integer(eat_char(w.p))
        ELSE IF w.c \in Digits THEN ignore_integer(w.p)
        ELSE IF w.c = "\"" THEN Ignored(parse_double_str(eat_char(w.p)))
        ELSE IF w.c = "'" THEN Ignored(parse_single_str(eat_char(w.p)))
        ELSE IF w.c = "[" THEN IgnoreArm(w.p, "]")
        ELSE IF w.c = "{" THEN IgnoreArm(w.p, "}")
        ELSE Ignored(parse_none_str(w.p)))

\* deserialize_ignored_any: ignore_value, then visit_unit
deserialize_ignored_any(p) == Keyword(ignore_value(p), Unit)

\* de::Deserialize::deserialize for the consumer type ty; "Unexpected" is
\* no consumer but the arm of a typed method for a byte it does not expect
Deserialize(p, ty) ==
    CASE ty = "Value" -> deserialize_any(p)
      [] ty = "Unexpected" -> fix_position(peek_invalid_type(p))
      [] ty = "Unit" -> deserialize_unit(p)
      [] ty = "Bool" -> deserialize_bool(p)
      [] ty \in {"I32", "F64"} -> deserialize_number(p, ty)
      [] ty = "String" -> deserialize_str(p)
      [] ty = "OptionI32" -> deserialize_option(p, "I32")
      [] ty \in {"VecI32", "VecValue"} ->
            deserialize_seq(p, IF ty = "VecI32" THEN "I32" ELSE "Value")
      [] ty \in {"Map", "MapI32"} ->
            deserialize_map(p, IF ty = "MapI32" THEN "I32" ELSE "String")
      [] ty = "Struct" -> deserialize_struct(p)
      [] ty = "Bytes" -> deserialize_bytes(p)
      [] ty \in {"Enum", "EnumUnit", "EnumTuple", "EnumStruct"} ->
            deserialize_enum(p, CASE ty = "Enum" -> "Value"
                                  [] ty = "EnumUnit" -> "Unit"
                                  [] ty = "EnumTuple" -> "VecValue"
                                  [] ty = "EnumStruct" -> "Struct")
      [] ty = "IgnoredAny" -> deserialize_ignored_any(p)

----------------------------------------------------------------------------
(* What the last operation returned.  kind is "none" before any call,      *)
(* "value" for Ok/Some(Ok), "error" for Err/Some(Err), "end" for the       *)
(* iterator's None, "byte" for a scanner's result and "panic" for a call   *)
(* that panicked, after which nothing is called; from is the number        *)
(* of bytes consumed before the call; c and nl are a scanner's byte and    *)
(* had_newline; first is the byte the stream step saw first.               *)

Out(op, kind, from, err, epos, v, c, nl, first) ==
    [op |-> op, kind |-> kind, from |-> from, err |-> err, epos |-> epos,
     v |-> v, c |-> c, nl |-> nl, first |-> first]

NoOut == Out("new", "none", 0, "", 0, NoVal, EOF, FALSE, EOF)

OutOf(op, from, r, first) ==
    Out(op, IF r.err = "" THEN "value" ELSE IF r.err = "Panic" THEN "panic" ELSE "error",
        from, r.err, r.epos, r.v, EOF, FALSE, first)

\* The call panicked and did not return; the Deserializer is kept as the
\* call found it, what a caught panic leaves in it is not followed.
Panic(p) == Err(p, "Panic", 0)

\* What a call that took the Deserializer p to the result r may do, over
\* the builds of the code: return r, or, where an integer operation
\* overflowed on the way (exponent.abs(), remaining_depth -= 1), panic in
\* a build with overflow checks.  A Deserializer that has already wrapped
\* once belongs to a build without the checks.
Outcomes(p, r) == IF r.p.ovf /\ ~p.ovf THEN {r, Panic(p)} ELSE {r}

OutOfScan(op, from, w) ==
    Out(op, IF w.err = "" THEN "byte" ELSE "error", from, w.err,
        IF w.err = "" THEN 0 ELSE NoPos, NoVal, w.c, w.nl, EOF)

----------------------------------------------------------------------------
(* StreamDeserializer *)

\* a faulty variant: every byte after the value is accepted
peek_end_of_value_lax(p, v) ==
    IF Peek(p) = IoErr THEN IoFail(p) ELSE Ok(p, v)

peek_end_of_value(p, v) ==
    LET c == Peek(p) IN
    IF c = IoErr THEN IoFail(p)
    ELSE IF c = EOF \/ c \in {" ", "\n", "\t", "\r", "\"", "[", "]", "{", "}", ",", ":"}
    THEN Ok(p, v)
    ELSE Err(p, "TrailingCharacters", PeekErrorPos(p))

\* a faulty variant: the offset follows the reader after a failed parse too
OffsetAfterAlways(start, r) == r.p.i

\* a faulty variant: a failed parse resets the offset
OffsetAfterReset(start, r) == IF r.err = "" THEN r.p.i ELSE 0

\* the offset the step leaves when the value parse returned r
OffsetAfter(start, r) == IF r.err = "" THEN r.p.i ELSE start

\* what the step yields once the value parse returned result
ItemOf(result, self_delineated_value) ==
    IF result.err # "" \/ self_delineated_value THEN result
    ELSE peek_end_of_value(result.p, result.v)

\* Iterator::next: the Deserializer, the offset and the item it yields
StreamNextOf(p, off, ty) ==
    Bind(parse_whitespace(p), LAMBDA w:
        IF w.err # "" THEN
            [de |-> w.p, offset |-> off,
             out |-> Out("next", "error", p.i, "Io", NoPos, NoVal, EOF, FALSE, EOF)]
        ELSE IF w.c = EOF THEN
            [de |-> w.p, offset |-> w.p.i,
             out |-> Out("next", "end", p.i, "", 0, NoVal, EOF, FALSE, EOF)]
        ELSE Bind(Deserialize(w.p, ty), LAMBDA result:
                Bind(ItemOf(result, w.c \in {"[", "\"", "{"}), LAMBDA item:
                    [de |-> item.p, offset |-> OffsetAfter(w.p.i, result),
                     out |-> OutOf("next", p.i, item, w.c)])))

\* Deserializer::end
end(p) ==
    Bind(parse_whitespace(p), LAMBDA w:
        IF w.err # "" THEN Err(w.p, "Io", NoPos)
        ELSE IF w.c = EOF THEN Ok(w.p, NoVal)
        ELSE Err(w.p, "TrailingCharacters", PeekErrorPos(w.p)))

\* from_trait: one value, then Deserializer::end
from_trait(p, ty) ==
    Bind(Deserialize(p, ty), LAMBDA value:
        IF value.err # "" THEN value
        ELSE Bind(end(value.p), LAMBDA e:
                IF e.err # "" THEN e ELSE Ok(e.p, value.v)))

----------------------------------------------------------------------------
(* Inputs: every concatenation of a bounded number of tokens, and the      *)
(* documents the documentation and the specification give as examples.     *)

RECURSIVE Flatten(_)
Flatten(ts) == IF ts = <<>> THEN <<>> ELSE Head(ts) \o Flatten(Tail(ts))

Concats(Toks, n) == UNION {{Flatten(ts) : ts \in [1..k -> Toks]} : k \in 0..n}

\* the example of the StreamDeserializer documentation, first three values
DocStream == <<"{", "\"", "k", "\"", ":", " ", "3", "}", "1", "\"", "c", "o", "o", "l", "\"">>
\* the example of the byte_offset documentation
DocOffsets == <<"[", "0", "]", " ", "[", "1", "]", " ", "[">>
\* a document with a line comment, a block comment and a newline separator
DocComments == <<"#", " ", "c", "o", "m", "m", "e", "n", "t", "\n", "[", "1", " ", "/", "*", " ", "c", " ", "*", "/", " ", "2", "\n", "3", "]">>

MaxStreamToks == 3

StreamToks ==
    {<<"[">>, <<"]">>, <<"{">>, <<"}">>, <<",">>, <<":">>, <<" ">>, <<"\n">>,
     <<"1">>, <<"x">>, <<"/">>, <<"\"", "a", "\"">>, <<"'", "a", "'">>}

StreamInputs == Concats(StreamToks, MaxStreamToks) \cup {DocStream, DocOffsets, DocComments}

----------------------------------------------------------------------------
(* The stream iterator as a state machine: Deserializer::into_iter, then   *)
(* any number of next() calls.                                             *)

Init ==
    /\ input \in StreamInputs
    /\ target \in {"Value", "VecI32", "F64", "String", "OptionI32"}
    /\ de = NewDeserializer
    /\ offset = 0
    /\ out = NoOut

\* the step, or its panic where the value parse overflowed
StreamOutcomes(p, off, n) ==
    IF n.de.ovf /\ ~p.ovf
    THEN {n, [de |-> p, offset |-> off, out |-> OutOf("next", p.i, Panic(p), EOF)]}
    ELSE {n}

StreamNext ==
    /\ out.kind # "panic"
    /\ \E step \in {StreamNextOf(de, offset, target)} :
       \E n \in StreamOutcomes(de, offset, step) :
        /\ de' = n.de
        /\ offset' = n.offset
        /\ out' = n.out
    /\ UNCHANGED <<input, target>>

Next == StreamNext

Spec == Init /\ [][Next]_vars

----------------------------------------------------------------------------
(* The scanners as a state machine: on one Deserializer, any sequence of   *)
(* scanner calls and single-byte reads.                                    *)

MaxScanToks == 4

ScanToks ==
    {<<" ">>, <<"\n">>, <<"#">>, <<"/">>, <<"*">>, <<"x">>, <<",">>, <<"/", "*">>, <<"*", "/">>}

ScanInputs == Concats(ScanToks, MaxScanToks)

InitScan ==
    /\ input \in ScanInputs
    /\ target = "Value"
    /\ de = NewDeserializer
    /\ offset = 0
    /\ out = NoOut

ParseWhitespace ==
    \E w \in {parse_whitespace(de)} :
        /\ de' = w.p
        /\ out' = OutOfScan("parse_whitespace", de.i, w)
        /\ UNCHANGED <<input, target, offset>>

ParseWhitespaceGetNewline ==
    \E w \in {parse_whitespace_get_newline(de)} :
        /\ de' = w.p
        /\ out' = OutOfScan("parse_whitespace_get_newline", de.i, w)
        /\ UNCHANGED <<input, target, offset>>

ParseWhitespaceUntilNewline ==
    \E w \in {parse_whitespace_until_newline(de)} :
        /\ de' = w.p
        /\ out' = OutOfScan("parse_whitespace_until_newline", de.i, w)
        /\ UNCHANGED <<input, target, offset>>

EatChar ==
    /\ Peek(de) \notin {EOF, IoErr}
    /\ de' = eat_char(de)
    /\ out' = Out("eat_char", "byte", de.i, "", 0, NoVal, Peek(de), FALSE, EOF)
    /\ UNCHANGED <<input, target, offset>>

NextScan ==
    \/ ParseWhitespace
    \/ ParseWhitespaceGetNewline
    \/ ParseWhitespaceUntilNewline
    \/ EatChar

SpecScan == InitScan /\ [][NextScan]_vars

----------------------------------------------------------------------------
(* Single values as a state machine: on one Deserializer, any sequence of  *)
(* Deserialize::deserialize calls for the consumer type, Deserializer::end,*)
(* and the one-shot entry points (from_str, from_slice, from_reader).      *)

\* integers at the edges of u64 and i64
U64MaxText == <<"1", "8", "4", "4", "6", "7", "4", "4", "0", "7", "3", "7", "0", "9", "5", "5", "1", "6", "1", "5">>

MaxValueToks == 3

ValueToks ==
    {<<"n", "u", "l", "l">>, <<"t", "r", "u", "e">>, <<"f", "a", "l", "s", "e">>,
     <<"n", "o">>, <<"t", "r">>, <<"f", "a", "l", "s">>,
     <<"0">>, <<"1">>, <<"2">>, <<"-">>, <<".">>, <<"e">>, <<"x">>,
     <<" ">>, <<"\n">>, <<",">>, <<"]">>, <<"/">>}

ValueInputs ==
    Concats(ValueToks, MaxValueToks)
        \* u64::MAX, u64::MAX + 1, i64::MIN and i64::MIN - 1
        \cup {n \o t : n \in {U64MaxText, Append(U64MaxDiv10, "6"),
                                <<"-">> \o I64MinAbs,
                                <<"-">> \o <<"9", "2", "2", "3", "3", "7", "2", "0", "3", "6", "8", "5", "4", "7", "7", "5", "8", "0", "9">>},
                      t \in {<<>>, <<"\n">>, <<",">>, <<"0">>, <<"0", "0", ",">>,
                             <<"x">>, <<" ", "1">>}}
        \* exponents at the edge of i32: i32::MAX and i32::MAX + 1
        \cup {m \o e \o <<"2", "1", "4", "7", "4", "8", "3", "6", "4">> \o t :
                m \in {<<"0">>, <<"1">>, <<"-", "0">>, <<"-", "1">>, <<"1", ".", "1">>},
                e \in {<<"e">>, <<"e", "-">>},
                t \in {<<"7">>, <<"7", ",">>, <<"8">>, <<"8", ",">>, <<"8", "0">>,
                       <<"8", "0", ",">>}}
        \* floats at the edges of f64: the largest finite value, infinity, the
        \* smallest subnormal and 0.0
        \cup {m \o <<"e">> \o e \o t :
                m \in {<<"1">>, <<"2">>, <<"-", "2">>, <<"3">>},
                e \in {<<"3", "0", "8">>, <<"3", "0", "9">>, <<"-", "3", "2", "3">>,
                       <<"-", "3", "2", "4">>, <<"-", "6", "1", "7">>},
                t \in {<<>>, <<",">>}}

InitValue ==
    /\ input \in ValueInputs
    /\ target \in {"Value", "Unit", "Bool", "I32", "IgnoredAny"}
    /\ de = NewDeserializer
    /\ offset = 0
    /\ out = NoOut

DeserializeValue ==
    /\ out.kind # "panic"
    /\ \E ret \in {Deserialize(de, target)} : \E r \in Outcomes(de, ret) :
        /\ de' = r.p
        /\ out' = OutOf("deserialize", de.i, r, EOF)
    /\ UNCHANGED <<input, target, offset>>

End ==
    /\ out.kind # "panic"
    /\ \E r \in {end(de)} :
        /\ de' = r.p
        /\ out' = OutOf("end", de.i, r, EOF)
    /\ UNCHANGED <<input, target, offset>>

\* from_str / from_slice / from_reader: a fresh Deserializer, then from_trait
FromTrait ==
    /\ out.op = "new"
    /\ \E ret \in {from_trait(de, target)} : \E r \in Outcomes(de, ret) :
        /\ de' = r.p
        /\ out' = OutOf("from_trait", 0, r, EOF)
    /\ UNCHANGED <<input, target, offset>>

NextValue ==
    \/ DeserializeValue
    \/ End
    \/ FromTrait

SpecValue == InitValue /\ [][NextValue]_vars

----------------------------------------------------------------------------
(* Whole documents as a state machine: the calls of the single-value state *)
(* machine on arrays, objects and comment-only texts.                      *)

MaxSeqToks == 4

\* arrays: `[` and a body made of strings, separators, comments and `]`
SeqDocs ==
    {<<"[">> \o body :
        body \in Concats({<<"\"", "a", "\"">>, <<",">>, <<" ">>, <<"\n">>, <<"#">>, <<"]">>},
                         MaxSeqToks)}

\* objects of two members: member names bare or double-quoted, the two
\* members separated by a comma, a newline, a blank, or a mix of them
MapKeys == {<<"a">>, <<"b">>, <<"\"", "a", "\"">>, <<"\"", "b", "\"">>}

MapVals == {<<"1">>, <<"2">>}

MapDoc(k1, v1, sep, k2, v2) ==
    <<"{">> \o k1 \o <<":">> \o v1 \o sep \o k2 \o <<":">> \o v2 \o <<"}">>

MapDocs ==
    {MapDoc(k1, v1, sep, k2, v2) :
        k1 \in MapKeys, v1 \in MapVals, k2 \in MapKeys, v2 \in MapVals,
        sep \in {<<",">>, <<"\n">>, <<"\r">>, <<" ">>, <<",", " ">>, <<" ", "\n">>}}

\* standard JSON documents, each with the value its text denotes: scalars,
\* arrays and objects of up to two entries, one more level of nesting, and
\* the example document of the specification, {"a":1, "b":[true,null,"x"]}
StdDocs ==
    LET Doc(text, v) == [text |-> text, v |-> v]
        Scalars ==
            {Doc(<<"1">>, U64(<<"1">>)), Doc(<<"t", "r", "u", "e">>, Bool(TRUE)),
             Doc(<<"n", "u", "l", "l">>, Unit), Doc(<<"\"", "x", "\"">>, Str(<<"x">>))}
        Seps == {<<",">>, <<",", " ">>}
        Arrays(E) ==
            {Doc(<<"[", "]">>, SeqVal(<<>>))}
                \cup {Doc(<<"[">> \o e.text \o <<"]">>, SeqVal(<<e.v>>)) : e \in E}
                \cup {Doc(<<"[">> \o e.text \o sep \o f.text \o <<"]">>,
                          SeqVal(<<e.v, f.v>>)) : e \in E, f \in E, sep \in Seps}
        Objects(E) ==
            {Doc(<<"{", "}">>, MapVal(<<>>))}
                \cup {Doc(<<"{", "\"", "a", "\"", ":">> \o e.text \o <<"}">>,
                          MapVal(<<Str(<<"a">>), e.v>>)) : e \in E}
                \cup {Doc(<<"{", "\"", "a", "\"", ":">> \o e.text \o sep
                                \o <<"\"", "b", "\"", ":">> \o f.text \o <<"}">>,
                          MapVal(<<Str(<<"a">>), e.v, Str(<<"b">>), f.v>>)) :
                            e \in E, f \in E, sep \in Seps}
        Nested ==
            {Doc(<<"1">>, U64(<<"1">>)), Doc(<<"[", "]">>, SeqVal(<<>>)),
             Doc(<<"[", "1", "]">>, SeqVal(<<U64(<<"1">>)>>)),
             Doc(<<"{", "\"", "a", "\"", ":", "n", "u", "l", "l", "}">>,
                 MapVal(<<Str(<<"a">>), Unit>>))}
        Example ==
            Doc(<<"{", "\"", "a", "\"", ":", "1", ",", " ", "\"", "b", "\"", ":", "[",
                  "t", "r", "u", "e", ",", "n", "u", "l", "l", ",", "\"", "x", "\"", "]", "}">>,
                MapVal(<<Str(<<"a">>), U64(<<"1">>), Str(<<"b">>),
                         SeqVal(<<Bool(TRUE), Unit, Str(<<"x">>)>>)>>))
    IN  Scalars \cup Arrays(Scalars) \cup Objects(Scalars)
            \cup Arrays(Nested) \cup Objects(Nested) \cup {Example}

MaxBlankToks == 3

\* blanks, comments and a few other bytes, alone or after a block comment
\* that ends in `**/`
BlankDocs ==
    {c \o rest : c \in {<<>>, <<"/", "*", "*", "*", "/">>},
                 rest \in Concats(ScanToks, MaxBlankToks)}

\* the scalars of the arrays of two elements and of the objects of one member
DocScalars ==
    {<<"\"", "a", "\"">>, <<"1">>, <<"-", "1">>, <<"t", "r", "u", "e">>, <<"n", "u", "l", "l">>}

DocInputs ==
    SeqDocs \cup MapDocs \cup {d.text : d \in StdDocs} \cup BlankDocs
        \* two scalars in an array, a comma, a newline or blanks between them
        \cup {<<"[">> \o a \o s \o b \o <<"]">> :
                a \in DocScalars, b \in DocScalars,
                s \in {<<" ">>, <<"\t">>, <<" ", "\t">>, <<",">>, <<"\n">>}}
        \* one element or one member, and a comma before the closing bracket
        \cup {open \o a \o s \o close :
                open \in {<<"[">>}, close \in {<<"]">>}, a \in DocScalars, s \in {<<",">>, <<" ", ",">>, <<",", " ">>}}
        \cup {<<"{", "\"", "a", "\"", ":">> \o a \o s \o <<"}">> :
                a \in DocScalars, s \in {<<",">>, <<" ", ",">>, <<",", " ">>}}

\* the consumers of deserialize_map (keys read as String or as i32),
\* deserialize_struct, deserialize_bytes, deserialize_enum (variants of a
\* newtype, unit, tuple or struct content) and Vec<Value>
TypedTargets ==
    {"Map", "MapI32", "Struct", "Bytes", "Enum", "EnumUnit", "EnumTuple", "EnumStruct",
     "VecValue"}

\* documents for them: enums of one variant, maps with names and integers
\* as keys, arrays, strings, and what none of them accepts
TypedDocs ==
    {<<"{", "\"", "A", "\"", ":", "1", "}">>,
     <<"{", "\"", "A", "\"", ":", "n", "u", "l", "l", "}">>,
     <<"{", "\"", "A", "\"", ":", "[", "1", "]", "}">>,
     <<"{", "\"", "A", "\"", ":", "{", "\"", "b", "\"", ":", "1", "}", "}">>,
     <<"{", "\"", "A", "\"", " ", ":", "1", " ", "}">>,
     <<"{", "\"", "A", "\"", ":", "1", ",", "}">>,
     <<"{", "\"", "A", "\"", ":", "1">>,
     <<"{", "\"", "A", "\"", "}">>,
     <<"{", "A", ":", "1", "}">>,
     <<"\"", "A", "\"">>,
     <<"\"", "A", "\"", " ">>,
     <<"'", "A", "'">>,
     <<"{", "a", ":", "1", "\n", "b", ":", "2", "}">>,
     <<"{", "\"", "a", "\"", ":", "1", ",", "\"", "b", "\"", ":", "[", "2", "]", "}">>,
     <<"{", "}">>,
     <<"[", "]">>,
     <<"[", "1", "]">>,
     <<"[", "1", ",", "\"", "a", "\"", "]">>,
     <<"[", "1">>,
     <<"{", "1", ":", "2", "}">>,
     <<"{", "\"", "1", "\"", ":", "2", ",", "'", "-", "2", "'", ":", "3", "}">>,
     <<"{", "\"", "x", "\"", ":", "1", "}">>,
     <<"{", "0", "0", "7", ":", "1", "}">>,
     <<"{", "+", "1", ":", "1", "}">>,
     <<"{", "-", "0", ":", "1", "}">>,
     <<"{", "2", "1", "4", "7", "4", "8", "3", "6", "4", "7", ":", "1", "}">>,
     <<"{", "2", "1", "4", "7", "4", "8", "3", "6", "4", "8", ":", "1", "}">>,
     <<"{", "\"", "-", "2", "1", "4", "7", "4", "8", "3", "6", "4", "8", "\"", ":", "1", "}">>,
     <<"{", "-", ":", "1", "}">>,
     <<"\"", "a", "b", "\"">>,
     <<"'", "a", "b", "'">>,
     <<"1">>,
     <<"n", "u", "l", "l">>,
     <<"x">>}

InitDoc ==
    /\ \/ input \in DocInputs /\ target = "Value"
       \/ input \in TypedDocs /\ target \in TypedTargets
    /\ de = NewDeserializer
    /\ offset = 0
    /\ out = NoOut

SpecDoc == InitDoc /\ [][NextValue]_vars

----------------------------------------------------------------------------
(* A reader that fails: from_reader on an input source whose k-th read     *)
(* attempt returns an I/O error, once.                                     *)

MaxIoToks == 2

InitIo ==
    /\ \/ /\ input \in Concats(ValueToks, MaxIoToks)
          /\ target \in {"Value", "Unit", "Bool", "I32", "F64", "String", "OptionI32"}
       \/ /\ input \in TypedDocs
          /\ target \in TypedTargets \cup {"Value"}
    /\ \E k \in 1..(Len(input) + 1) : de = [NewDeserializer EXCEPT !.fail = {k}]
    /\ offset = 0
    /\ out = NoOut

SpecIo == InitIo /\ [][FromTrait]_vars

----------------------------------------------------------------------------
(* Deep inside a document: the Deserializer has entered RecursionLimit - d  *)
(* arrays, so d is left of its budget, and the enclosing array is read on: *)
(* element by element by a visitor (next_element_seed), or to its end by   *)
(* ignore_seq.                                                             *)

MaxBudget == 3

MaxDeepToks == 4

InitDeep ==
    /\ \E d \in 1..MaxBudget,
          body \in Concats({<<"[">>, <<"]">>, <<"{", "a", ":">>, <<"}">>, <<",">>}, MaxDeepToks) :
            \* the arrays entered, a blank, and what follows
            /\ input = [k \in 1..(RecursionLimit - d) |-> "["] \o <<" ">> \o body
            /\ de = [NewDeserializer EXCEPT !.i = RecursionLimit - d, !.depth = d]
    /\ target \in {"Value", "IgnoredAny"}
    /\ offset = 0
    /\ out = NoOut

\* the visitor asks for the next element; Ok(None) is the kind "end"
NextElement ==
    /\ out.kind \notin {"error", "end", "panic"}
    /\ \E ret \in {next_element_seed(de, target)} : \E r \in Outcomes(de, ret) :
        /\ de' = r.p
        /\ out' = [OutOf("next_element_seed", de.i, r, EOF)
                      EXCEPT !.kind = IF r.err = "" /\ r.v = NoVal THEN "end" ELSE @]
    /\ UNCHANGED <<input, target, offset>>

\* ignore_value skips the rest of the enclosing array
IgnoreSeq ==
    /\ out.op = "new"
    /\ target = "IgnoredAny"
    /\ \E ret \in {ignore_seq(de)} : \E r \in Outcomes(de, ret) :
        /\ de' = r.p
        /\ out' = OutOf("ignore_seq", de.i, r, EOF)
    /\ UNCHANGED <<input, target, offset>>

NextDeep ==
    \/ NextElement
    \/ IgnoreSeq

SpecDeep == InitDeep /\ [][NextDeep]_vars

----------------------------------------------------------------------------
(* Far inside a long integer: parse_long_integer called on the rest of an  *)
(* integer text of which it has already counted all but a few of the       *)
(* i32::MAX digits its exponent holds.  The input is what follows, byte    *)
(* indices are counted from there; the significand kept is u64::MAX / 10.  *)
(* The consumer is f64, which comes here through deserialize_number and    *)
(* captures nothing: str_buf is empty.                                     *)

MaxLongToks == 3

MaxLongLeft == 2

InitLong ==
    /\ input \in Concats({<<"0">>, <<"1">>, <<",">>, <<"\n">>, <<".">>, <<"e">>, <<"x">>},
                         MaxLongToks)
    /\ target = "F64"
    /\ de = NewDeserializer
    /\ offset = 0
    /\ out = NoOut

\* parse_long_integer(pos, significand, exponent), the exponent left short
\* of i32::MAX
ParseLongInteger ==
    /\ out.op = "new"
    /\ \E pos \in BOOLEAN, left \in 0..MaxLongLeft :
       \E ret \in {parse_long_integer(de, pos, U64MaxDiv10, I32Max - left)} :
       \E r \in Outcomes(de, ret) :
        /\ de' = r.p
        /\ out' = OutOf("parse_long_integer", de.i, r, EOF)
    /\ UNCHANGED <<input, target, offset>>

SpecLong == InitLong /\ [][ParseLongInteger]_vars

----------------------------------------------------------------------------
(* Properties.  Helpers first: what the documentation says about a text,   *)
(* computed from the input alone.                                          *)

StartsWith(s, pre) == Len(s) >= Len(pre) /\ SubSeq(s, 1, Len(pre)) = pre

\* the decimal text of a natural number
IsNumeral(s) ==
    /\ Len(s) >= 1
    /\ \A k \in 1..Len(s) : s[k] \in Digits
    /\ (Len(s) = 1 \/ s[1] # "0")

\* the number of digits of the input from index k on
RECURSIVE DigitRun(_)
DigitRun(k) ==
    IF k <= Len(input) /\ input[k] \in Digits THEN 1 + DigitRun(k + 1) ELSE 0

\* the first byte of the input after index k that is no blank, or EOF
RECURSIVE AfterBlanks(_)
AfterBlanks(k) ==
    IF k >= Len(input) THEN EOF
    ELSE IF input[k + 1] \in {" ", "\t"} THEN AfterBlanks(k + 1)
    ELSE input[k + 1]

\* the length of the bare token the input starts with
RECURSIVE BareLen(_)
BareLen(k) ==
    IF k >= Len(input) \/ input[k + 1] \in BareTerminators THEN k ELSE BareLen(k + 1)

BareToken == SubSeq(input, 1, BareLen(0))

\* how many bytes of the input the integer it starts with takes, 0 if it
\* does not start with an integer an i32 holds that is a complete number
IntegerLen ==
    LET sign == IF Len(input) >= 1 /\ input[1] = "-" THEN 1 ELSE 0
        d == DigitRun(sign + 1)
        after == IF sign + d < Len(input) THEN input[sign + d + 1] ELSE EOF
    IN  IF d >= 1 /\ d <= 9 /\ (d = 1 \/ input[sign + 1] # "0") /\ after \notin {".", "e", "E"}
        THEN sign + d ELSE 0

\* how many bytes the complete keyword or number the consumer expects
\* takes at the start of the input, 0 if the input starts with none
CompleteLen ==
    IF target = "Unit" /\ StartsWith(input, <<"n", "u", "l", "l">>) THEN 4
    ELSE IF target = "Bool" /\ StartsWith(input, <<"t", "r", "u", "e">>) THEN 4
    ELSE IF target = "Bool" /\ StartsWith(input, <<"f", "a", "l", "s", "e">>) THEN 5
    ELSE IF target = "I32" THEN IntegerLen
    ELSE 0

\* the first call on a fresh Deserializer has returned
FirstCall == out.op \in {"deserialize", "from_trait"} /\ out.from = 0

SelfDelineated == {"[", "\"", "{"}

\* where parse_whitespace stops when called at byte offset from
WsStop(from) == parse_whitespace([NewDeserializer EXCEPT !.i = from]).p.i

\* the value parse of the stream step that started at byte offset from
StepParse(from) ==
    Deserialize(parse_whitespace([NewDeserializer EXCEPT !.i = from]).p, target)

\* C1: through the any-value dispatcher the decimal text of N yields U64(N)
\* for N in 0..=u64::MAX and I64(N) for N in i64::MIN..=-1
C1_IntegerShapes ==
    (FirstCall /\ target = "Value") =>
        /\ (IsNumeral(input) /\ ~NatGt(input, U64MaxText))
                => (out.kind = "value" /\ out.v = U64(input))
        /\ (Len(input) >= 2 /\ input[1] = "-" /\ IsNumeral(Tail(input))
                /\ Tail(input) # Zero /\ ~NatGt(Tail(input), I64MinAbs))
                => (out.kind = "value" /\ out.v = I64(Tail(input)))

\* C2: after a complete number or keyword the parse succeeds if a newline
\* comes before any significant byte, if the next significant byte is `,`,
\* `]` or `}`, or if the input ends; otherwise it fails with
\* UnexpectedCharacter (texts where a comment follows are left aside)
C2_TerminatorPolicy ==
    (out.op = "deserialize" /\ out.from = 0 /\ CompleteLen > 0
        /\ AfterBlanks(CompleteLen) \notin {"/", "#"}) =>
        IF AfterBlanks(CompleteLen) \in {EOF, "\n", "\r", ",", "]", "}"}
        THEN out.kind = "value"
        ELSE out.kind = "error" /\ out.err = "UnexpectedCharacter"

\* C3: when the dispatcher starts a number and the number fails, the string
\* it emits is the original text of the token, each byte once and in order
C3_NumberFallbackText ==
    (FirstCall /\ target = "Value" /\ Len(input) >= 1
        /\ input[1] \in Digits \cup {"-"} /\ out.v.t = "Str") =>
        out.v.s = BareToken

\* C4: for a bare token that starts with n, t or f and is no keyword followed
\* by a terminator, the dispatcher emits the token's original text
C4_KeywordFallbackText ==
    (FirstCall /\ target = "Value" /\ Len(input) >= 1 /\ input[1] \in {"n", "t", "f"}) =>
        /\ out.kind = "value"
        /\ out.v.t \in {"Unit", "Bool", "Str"}
        /\ out.v.t = "Str" => out.v.s = BareToken
        /\ BareToken \notin {<<"n", "u", "l", "l">>, <<"t", "r", "u", "e">>,
                             <<"f", "a", "l", "s", "e">>} => out.v.t = "Str"

\* C5: a block comment ends at its `*/` and what follows on the line is
\* input: the document with both kinds of comment yields the three elements
C5_BlockCommentEnds ==
    (input = DocComments /\ target = "Value" /\ out.op = "next" /\ out.from = 0) =>
        /\ out.kind = "value"
        /\ out.v = SeqVal(<<U64(<<"1">>), U64(<<"2">>), U64(<<"3">>)>>)

\* C6: the plain scanner returns the next byte still unconsumed, and a `/`
\* followed by neither `/` nor `*` is that byte: nothing is consumed
C6_SlashNotConsumed ==
    (out.op = "parse_whitespace" /\ out.kind = "byte") =>
        /\ out.c = Peek(de)
        /\ (/\ out.from < Len(input)
            /\ input[out.from + 1] = "/"
            /\ (out.from + 1 = Len(input) \/ input[out.from + 2] \notin {"/", "*"}))
                => (de.i = out.from /\ out.c = "/")

\* C7: the documented stream yields the map, then U64(1), then Str("cool"),
\* then the end with byte_offset() at 15; a number directly followed by a
\* double-quoted string is yielded as a number on its own
C7_DocStreamThreeValues ==
    (input = DocStream /\ target = "Value" /\ out.op = "next") =>
        /\ out.from = 0 =>
            (out.v = MapVal(<<Str(<<"k">>), U64(<<"3">>)>>) /\ offset = 8)
        /\ out.from = 8 => (out.kind = "value" /\ out.v = U64(<<"1">>) /\ offset = 9)
        /\ out.from = 9 =>
            (out.kind = "value" /\ out.v = Str(<<"c", "o", "o", "l">>) /\ offset = 15)
        /\ out.from = 15 => (out.kind = "end" /\ offset = 15)

\* the documented offsets of `[0] [1] [` read as Vec<i32>: 0, 3, 7, 8
DocOffsetsSteps ==
    (input = DocOffsets /\ target = "VecI32") =>
        /\ out.op = "new" => offset = 0
        /\ (out.op = "next" /\ out.from = 0) =>
            (out.v = SeqVal(<<U64(<<"0">>)>>) /\ offset = 3)
        /\ (out.op = "next" /\ out.from = 3) =>
            (out.v = SeqVal(<<U64(<<"1">>)>>) /\ offset = 7)
        /\ (out.op = "next" /\ out.from = 7) => (out.kind = "error" /\ offset = 8)

\* offset before the first step, and after a self-delineating value
OffsetOfValue ==
    /\ out.op = "new" => offset = 0
    /\ (out.op = "next" /\ out.kind = "value" /\ out.first \in SelfDelineated) =>
        /\ offset = de.i
        /\ offset > WsStop(out.from)
        /\ input[offset] = (CASE out.first = "[" -> "]"
                              [] out.first = "{" -> "}"
                              [] out.first = "\"" -> "\"")

\* C8 as stated: 0 before the first step; just past the closing byte after a
\* self-delineating value; after every step that yields an error, the index
\* of the first byte of the failed value; 0, 3, 7, 8 for `[0] [1] [`
C8_OffsetAsStated ==
    /\ OffsetOfValue
    /\ (out.op = "next" /\ out.kind = "error") => offset = WsStop(out.from)
    /\ DocOffsetsSteps

\* the step's value parsed and the byte after it was refused
RefusedAfterValue ==
    out.op = "next" /\ out.kind = "error" /\ out.err = "TrailingCharacters"
        /\ out.first \notin SelfDelineated

\* C8 amended: as stated, except that after a step whose value parsed and
\* was then refused for the byte that follows it (TrailingCharacters), the
\* offset is the index just past that value; after a step whose value parse
\* failed it is the index at which the step's leading scan stopped
C8_OffsetBookkeeping ==
    /\ OffsetOfValue
    /\ (out.op = "next" /\ out.kind = "error" /\ ~RefusedAfterValue) =>
        offset = WsStop(out.from)
    /\ RefusedAfterValue => (offset = de.i /\ offset = StepParse(out.from).p.i)
    /\ DocOffsetsSteps

\* a value was parsed, refused for the byte after it, and the offset moved
C8_Witness == RefusedAfterValue /\ offset = de.i /\ offset > WsStop(out.from)

\* C9: across next() calls, whatever each yields, byte_offset() never decreases
C9_OffsetMonotonic == [][offset' >= offset]_vars

\* a step after an earlier one yielded an error, and the offset had moved
C9_Witness == out.op = "next" /\ out.kind = "error" /\ out.from > 0 /\ offset > 0

RECURSIVE RefBlank(_, _, _)
RefBlank(k, nl, in_comment) ==
    IF k >= Len(input) THEN [k |-> k, nl |-> nl]
    ELSE IF in_comment
    THEN RefBlank(k + 1, nl \/ IsNewline(input[k + 1]), ~IsNewline(input[k + 1]))
    ELSE IF input[k + 1] \in {" ", "\t"} THEN RefBlank(k + 1, nl, FALSE)
    ELSE IF IsNewline(input[k + 1]) THEN RefBlank(k + 1, TRUE, FALSE)
    ELSE IF input[k + 1] = "#" THEN RefBlank(k + 1, nl, TRUE)
    ELSE [k |-> k, nl |-> nl]

\* the byte at offset k, EOF past the end
ByteAt(k) == IF k < Len(input) THEN input[k + 1] ELSE EOF

\* the offset just past the double quote that closes the string opened at
\* offset k - 1, or 0 if there is none
RECURSIVE QuoteEnd(_)
QuoteEnd(k) ==
    IF k >= Len(input) THEN 0
    ELSE IF input[k + 1] = "\"" THEN k + 1
    ELSE QuoteEnd(k + 1)

\* the array delimiter rule read from byte offset k, at an element position
\* or after an element: "closed", the error it asks for, or "any" where the
\* rule says nothing (the element is no double-quoted string)
RECURSIVE ArrayRule(_, _)
ArrayRule(k, after_element) ==
    LET b == RefBlank(k, FALSE, FALSE)
        c == ByteAt(b.k)
    IN  IF after_element THEN
            IF c = EOF THEN "EofWhileParsingList"
            ELSE IF c = "," THEN ArrayRule(b.k + 1, FALSE)
            ELSE IF c = "]" THEN "closed"
            ELSE IF b.nl THEN ArrayRule(b.k, FALSE)
            ELSE "ExpectedListCommaOrEnd"
        ELSE IF c = "]" THEN "closed"
        ELSE IF c = "," THEN "ExtraComma"
        ELSE IF c = "\"" /\ QuoteEnd(b.k + 1) > 0 THEN ArrayRule(QuoteEnd(b.k + 1), TRUE)
        ELSE "any"

\* C11: at an element position `]` closes the array and `,` fails with
\* ExtraComma; after an element the next significant byte must be `,` or `]`
\* or a newline must have been crossed, otherwise ExpectedListCommaOrEnd;
\* EOF after an element fails with EofWhileParsingList
C11_ArrayDelimiters ==
    (out.op = "deserialize" /\ out.from = 0 /\ target = "Value" /\ ByteAt(0) = "[") =>
        /\ ArrayRule(1, FALSE) = "closed" => out.kind = "value"
        /\ ArrayRule(1, FALSE) \in {"ExtraComma", "ExpectedListCommaOrEnd", "EofWhileParsingList"}
                => (out.kind = "error" /\ out.err = ArrayRule(1, FALSE))

\* the member name a key text stands for
MemberName(k) == IF Head(k) = "\"" THEN SubSeq(k, 2, Len(k) - 1) ELSE k

\* the events of an object of two members with unsigned integer values
TwoMembers(k1, v1, k2, v2) ==
    MapVal(<<Str(MemberName(k1)), U64(v1), Str(MemberName(k2)), U64(v2)>>)

\* C12: an object whose two members are separated by a newline or by a
\* comma, with bare or double-quoted member names, is accepted and delivers
\* key, value, key, value in document order; the bare newline form delivers
\* what the quoted comma form delivers.  The consumer is a Value, or a map
\* or a struct that reads its keys as names.
C12_NewlineUnquoted ==
    \A k1 \in MapKeys, k2 \in MapKeys, v1 \in MapVals, v2 \in MapVals :
        \A sep \in {<<",">>, <<"\n">>, <<"\r">>, <<",", " ">>, <<" ", "\n">>} :
            (/\ out.op = "from_trait"
             /\ target \in {"Value", "Map", "Struct"}
             /\ input = MapDoc(k1, v1, sep, k2, v2)) =>
                /\ out.kind = "value"
                /\ out.v = TwoMembers(k1, v1, k2, v2)

C12_Witness ==
    /\ out.op = "from_trait"
    /\ input = <<"{", "a", ":", "1", "\n", "b", ":", "2", "}">>
    /\ out.v = MapVal(<<Str(<<"a">>), U64(<<"1">>), Str(<<"b">>), U64(<<"2">>)>>)

\* C13: a standard JSON document parsed by from_str as a Value succeeds and
\* delivers the value its text denotes, keys and values in document order
C13_StandardDocuments ==
    (out.op = "from_trait" /\ target = "Value") =>
        \A d \in StdDocs : input = d.text => (out.kind = "value" /\ out.v = d.v)

\* the number of arrays the input opens before its first blank
RECURSIVE EnteredArrays(_)
EnteredArrays(k) == IF ByteAt(k) = "[" THEN EnteredArrays(k + 1) ELSE k

\* the number of containers opened one inside the other from offset k on
RECURSIVE Opened(_)
Opened(k) ==
    IF ByteAt(k) = "[" THEN 1 + Opened(k + 1)
    ELSE IF ByteAt(k) = "{" /\ ByteAt(k + 1) = "a" /\ ByteAt(k + 2) = ":" THEN 1 + Opened(k + 3)
    ELSE 0

\* the nesting the input reaches with the containers that follow the blank
NestingDepth == EnteredArrays(0) + Opened(EnteredArrays(0) + 1)

\* C14: an input nested more than 128 containers deep fails with
\* RecursionLimitExceeded, when the values are delivered to a visitor and
\* when they are skipped by ignore_value
C14_DepthLimit ==
    (/\ out.op \in {"next_element_seed", "ignore_seq"}
     /\ out.from = EnteredArrays(0)
     /\ NestingDepth > RecursionLimit)
        => (out.kind = "error" /\ out.err = "RecursionLimitExceeded")

\* the input from offset k on is whitespace and comments only: `#` and `//`
\* comments run to the next newline, a block comment to the next `*/`, and
\* each may be cut short by the end of the input
RECURSIVE BlankOnly(_, _)
BlankOnly(k, mode) ==
    IF k >= Len(input) THEN TRUE
    ELSE IF mode = "line" THEN BlankOnly(k + 1, IF IsNewline(ByteAt(k)) THEN "ws" ELSE "line")
    ELSE IF mode = "block" THEN
        IF ByteAt(k) = "*" /\ ByteAt(k + 1) = "/" THEN BlankOnly(k + 2, "ws")
        ELSE BlankOnly(k + 1, "block")
    ELSE IF ByteAt(k) \in {" ", "\t", "\n", "\r"} THEN BlankOnly(k + 1, "ws")
    ELSE IF ByteAt(k) = "#" THEN BlankOnly(k + 1, "line")
    ELSE IF ByteAt(k) = "/" /\ ByteAt(k + 1) = "/" THEN BlankOnly(k + 2, "line")
    ELSE IF ByteAt(k) = "/" /\ ByteAt(k + 1) = "*" THEN BlankOnly(k + 2, "block")
    ELSE FALSE

\* C15: an input of whitespace and comments only, a block comment left open
\* at the end included, makes a single-value parse fail with
\* EofWhileParsingValue
C15_BlankInput ==
    (out.op \in {"deserialize", "from_trait"} /\ out.from = 0 /\ BlankOnly(0, "ws")) =>
        (out.kind = "error" /\ out.err = "EofWhileParsingValue")

\* the offset of the first byte from offset k on that is neither whitespace
\* nor part of a comment; the length of the input if there is none
RECURSIVE Significant(_, _)
Significant(k, mode) ==
    IF k >= Len(input) THEN Len(input)
    ELSE IF mode = "line" THEN Significant(k + 1, IF IsNewline(ByteAt(k)) THEN "ws" ELSE "line")
    ELSE IF mode = "block" THEN
        IF ByteAt(k) = "*" /\ ByteAt(k + 1) = "/" THEN Significant(k + 2, "ws")
        ELSE Significant(k + 1, "block")
    ELSE IF ByteAt(k) \in {" ", "\t", "\n", "\r"} THEN Significant(k + 1, "ws")
    ELSE IF ByteAt(k) = "#" THEN Significant(k + 1, "line")
    ELSE IF ByteAt(k) = "/" /\ ByteAt(k + 1) = "/" THEN Significant(k + 2, "line")
    ELSE IF ByteAt(k) = "/" /\ ByteAt(k + 1) = "*" THEN Significant(k + 2, "block")
    ELSE k

\* C16: the end-of-input test of the single-value entry points succeeds only
\* if nothing but whitespace and comments is left, and fails with
\* TrailingCharacters at the first other byte
C16_StrictEnd ==
    out.op = "end" =>
        IF BlankOnly(out.from, "ws") THEN out.kind = "value"
        ELSE /\ out.kind = "error"
             /\ out.err = "TrailingCharacters"
             /\ out.epos = Significant(out.from, "ws") + 1

\* where the digits of the number text start: after the sign, if any
NumSign == IF ByteAt(0) = "-" THEN 1 ELSE 0

\* the number text starts with a zero followed by another digit
LeadingZero == ByteAt(NumSign) = "0" /\ ByteAt(NumSign + 1) \in Digits

\* the number text is an integer and an exponent marker that no digit
\* follows, directly or after a sign
BareExponent ==
    LET d == DigitRun(NumSign + 1)
        after == NumSign + d + 1
    IN  /\ d >= 1
        /\ (d = 1 \/ ByteAt(NumSign) # "0")
        /\ ByteAt(NumSign + d) \in {"e", "E"}
        /\ \/ ByteAt(after) \notin Digits \cup {"+", "-"}
           \/ (ByteAt(after) \in {"+", "-"} /\ ByteAt(after + 1) \notin Digits)

\* C17: the number parser rejects a leading zero followed by another digit
\* and an exponent marker not followed by a digit with InvalidNumber
C17_InvalidNumber ==
    (out.op = "deserialize" /\ out.from = 0 /\ target = "I32"
        /\ (LeadingZero \/ BareExponent)) =>
        (out.kind = "error" /\ out.err = "InvalidNumber")

C17_Witness ==
    /\ out.op = "deserialize"
    /\ target = "I32"
    /\ input = <<"1", "e">>
    /\ out.err = "InvalidNumber"

\* C18: when the input source has returned an I/O error during the parse,
\* the parse returns an error of kind Io
C18_IoPropagates ==
    (out.op = "from_trait" /\ de.fail = {}) => (out.kind = "error" /\ out.err = "Io")

\* C19: the newline-noting scanner reports had_newline exactly when a
\* newline is among the bytes it consumed, the newline that ends a line
\* comment included
C19_NewlineNoted ==
    (out.op = "parse_whitespace_get_newline" /\ out.kind = "byte") =>
        (out.nl <=> \E k \in (out.from + 1)..de.i : IsNewline(input[k]))

\* the digits of the number text the input starts with
NumDigits == SubSeq(input, NumSign + 1, NumSign + DigitRun(NumSign + 1))

\* the input starts with a number text with no fraction and no exponent,
\* whose significand a u64 holds, followed by a terminator
PlainNumber ==
    /\ IsNumeral(NumDigits)
    /\ ~NatGt(NumDigits, U64MaxText)
    /\ ByteAt(NumSign + Len(NumDigits)) \in {",", "\n", "\r", "]", "}"}

\* (significand as i64).wrapping_neg() is zero for 0, negative for
\* 1..2^63 and positive for 2^63+1..u64::MAX
NegationIsPositive == NatGt(NumDigits, I64MinAbs)
NegationIsNonNegative == NumDigits = Zero \/ NegationIsPositive

\* C20 as stated: a negative number text is delivered as F64(-significand)
\* if the wrapping negation is non-negative, as I64 otherwise
C20_ShapeAsStated ==
    (out.op = "deserialize" /\ out.from = 0 /\ target = "Value" /\ PlainNumber) =>
        out.v = IF NumSign = 0 THEN U64(NumDigits)
                ELSE IF NegationIsNonNegative THEN F64(FALSE, NumDigits, 0)
                ELSE I64(NumDigits)

\* C20: a number text with no fraction and no exponent is delivered as
\* U64(significand) without a sign; with a `-` as F64(-significand) if the
\* wrapping negation of the significand as i64 is positive, as I64 of that
\* negation otherwise (so `-0` is I64(0)); a number text at the start of
\* the input is delivered as I64 only if it has a `-`, and an I64 is never
\* positive
C20_NumberShape ==
    /\ (out.op = "deserialize" /\ out.from = 0 /\ target = "Value" /\ PlainNumber) =>
            out.v = IF NumSign = 0 THEN U64(NumDigits)
                    ELSE IF NegationIsPositive THEN F64(FALSE, NumDigits, 0)
                    ELSE I64(NumDigits)
    /\ (out.op = "deserialize" /\ out.from = 0 /\ out.v.t = "I64"
            /\ ByteAt(0) \in Digits \cup {"-"}) =>
            (NumSign = 1 /\ ~out.v.pos /\ ~NatGt(out.v.s, I64MinAbs))

C20_Witness ==
    /\ out.op = "deserialize"
    /\ target = "Value"
    /\ input = <<"-", "0", ",">>
    /\ out.v = I64(Zero)

\* the integer digits of the number text the input starts with exceed u64::MAX
LongInteger == IsNumeral(NumDigits) /\ NatGt(NumDigits, U64MaxText)

\* the longest prefix of the integer digits that a u64 holds
KeptDigits ==
    IF ~NatGt(SubSeq(NumDigits, 1, Len(U64MaxText)), U64MaxText)
    THEN SubSeq(NumDigits, 1, Len(U64MaxText))
    ELSE SubSeq(NumDigits, 1, Len(U64MaxText) - 1)

\* On the integers of SpecValue, which are short of 2^31 digits: the
\* significand of a delivered number never exceeds u64::MAX; the overflow
\* test on a prefix of the integer digits and a digit is true exactly when
\* prefix * 10 + digit > u64::MAX; and an integer part above u64::MAX with
\* no fraction and no exponent is delivered as the float whose significand
\* is the digits accumulated before the test fired and whose decimal
\* exponent is the number of integer digits after them
SignificandNeverWraps ==
    /\ out.v.t \in {"U64", "I64", "F64"} => ~NatGt(out.v.s, U64MaxText)
    /\ (out.op = "deserialize" /\ out.from = 0 /\ IsNumeral(NumDigits)) =>
            \A k \in 1..Len(NumDigits) : \A b \in Digits :
                OverflowU64(SubSeq(NumDigits, 1, k), b)
                    <=> NatGt(MulAdd(SubSeq(NumDigits, 1, k), b), U64MaxText)
    /\ (out.op = "deserialize" /\ out.from = 0 /\ target = "Value" /\ LongInteger
            /\ ByteAt(NumSign + Len(NumDigits)) \notin {".", "e", "E"}) =>
            /\ out.kind = "value"
            /\ out.v = F64(NumSign = 0, KeptDigits, Len(NumDigits) - Len(KeptDigits))

\* C21: once the overflow test has fired, the long-integer path keeps the
\* significand and counts each further integer digit as +1 of decimal
\* exponent, however many digits follow.  Where the count has come within
\* MaxLongLeft of i32::MAX, the float of that significand and of the count
\* of all the digits is far above the largest f64, so that with no
\* fraction and no exponent after the digits the parse returns
\* NumberOutOfRange: it does not panic, and it does not deliver a float
\* made from a count that has wrapped
C21_CountsEveryDigit ==
    (out.op = "parse_long_integer" /\ ByteAt(DigitRun(1)) \notin {".", "e", "E"}) =>
        (out.kind = "error" /\ out.err = "NumberOutOfRange")

\* the number text the input starts with: the offsets just past its integer
\* digits and just past its fraction, and its exponent
IntEnd == NumSign + Len(NumDigits)
FracEnd == IF ByteAt(IntEnd) = "." THEN IntEnd + 1 + DigitRun(IntEnd + 2) ELSE IntEnd
ExpSign == IF ByteAt(FracEnd + 1) \in {"+", "-"} THEN 1 ELSE 0
ExpDigits ==
    SubSeq(input, FracEnd + 2 + ExpSign, FracEnd + 1 + ExpSign + DigitRun(FracEnd + 2 + ExpSign))
ExpEnd == FracEnd + 1 + ExpSign + Len(ExpDigits)

\* the digits of s without its leading zeros
RECURSIVE Stripped(_)
Stripped(s) == IF Len(s) > 1 /\ s[1] = "0" THEN Stripped(Tail(s)) ELSE s

\* the input starts with a number text whose exponent digits exceed i32::MAX
ExponentOverflows ==
    /\ IsNumeral(NumDigits)
    /\ ~NatGt(NumDigits, U64MaxText)
    /\ FracEnd # IntEnd + 1
    /\ ByteAt(FracEnd) \in {"e", "E"}
    /\ Len(ExpDigits) >= 1
    /\ NatGt(Stripped(ExpDigits), <<"2", "1", "4", "7", "4", "8", "3", "6", "4", "7">>)

\* the significand is zero: no digit of the integer part and of the
\* fraction is other than 0
ZeroSignificand == \A k \in (NumSign + 1)..FracEnd : input[k] \in {"0", "."}

\* C22: when the exponent digits overflow i32, all exponent digits are
\* consumed; the parse then fails with NumberOutOfRange if the significand
\* is non-zero and the exponent is positive, and otherwise yields zero with
\* the sign of the mantissa
C22_ExponentOverflow ==
    (out.op = "deserialize" /\ out.from = 0 /\ ExponentOverflows) =>
        /\ target \in {"I32", "Value"} => de.i >= ExpEnd
        /\ (target = "I32" /\ ~ZeroSignificand /\ ByteAt(FracEnd + 1) # "-") =>
                out.err = "NumberOutOfRange"
        /\ (target = "Value" /\ (ZeroSignificand \/ ByteAt(FracEnd + 1) = "-")
                /\ ByteAt(ExpEnd) \in {",", "\n", "\r", "]", "}"}) =>
                out.v = F64(NumSign = 0, Zero, 0)

\* C23: ignore_value succeeds exactly when deserialize_any on the same
\* input succeeds, and then both have consumed the same number of bytes
C23_IgnoreMirrorsAny ==
    (out.op = "deserialize" /\ out.from = 0 /\ target = "IgnoredAny") =>
        LET any == deserialize_any(NewDeserializer)
        IN  /\ (out.kind = "value") <=> (any.err = "")
            /\ (out.kind = "value") => de.i = any.p.i

\* C24: every next() of the stream that yields a value has consumed at
\* least one byte of the input
C24_StepConsumes ==
    [][(out'.op = "next" /\ out'.kind = "value") => de'.i > de.i]_vars

\* C25: when a parse inside the arrays entered returns, with a value or
\* with an error, the recursion budget is what it was when the parse began,
\* RecursionLimit less the arrays entered; each enclosing array adds one
\* on its return, so that the top-level call returns with RecursionLimit
C25_BudgetRestored ==
    out.op \in {"next_element_seed", "ignore_seq"} =>
        de.depth = RecursionLimit - EnteredArrays(0)

\* the bytes of the input from offset k up to the closing bracket that ends
\* it are spaces and tabs, at least one, and then a scalar
BlanksThenScalar(k) ==
    \E b \in DocScalars : \E n \in 1..2 :
        /\ Len(input) = k + n + Len(b) + 1
        /\ \A j \in 0..(n - 1) : ByteAt(k + j) \in {" ", "\t"}
        /\ SubSeq(input, k + n + 1, k + n + Len(b)) = b

\* the input is an array of two scalars with only spaces and tabs between
TwoScalarsNoSeparator ==
    /\ ByteAt(0) = "["
    /\ ByteAt(Len(input) - 1) = "]"
    /\ \E a \in DocScalars : StartsWith(Tail(input), a) /\ BlanksThenScalar(1 + Len(a))

\* C26: an array of two scalars that only spaces or tabs separate is
\* rejected with ExpectedListCommaOrEnd, whatever the kind of the scalars
C26_NoSeparatorRejected ==
    (out.op = "from_trait" /\ TwoScalarsNoSeparator) =>
        (out.kind = "error" /\ out.err = "ExpectedListCommaOrEnd")

\* the offset of the first `*/` of the input from offset k on, the length
\* of the input if there is none
RECURSIVE CommentClose(_)
CommentClose(k) ==
    IF k >= Len(input) THEN Len(input)
    ELSE IF ByteAt(k) = "*" /\ ByteAt(k + 1) = "/" THEN k
    ELSE CommentClose(k + 1)

\* the plain scanner was called on a `/*` whose first `*/` is followed by a
\* byte that is neither blank nor the start of a comment
ClosedBlockComment ==
    /\ out.op = "parse_whitespace"
    /\ ByteAt(out.from) = "/"
    /\ ByteAt(out.from + 1) = "*"
    /\ ByteAt(CommentClose(out.from + 2) + 2) \in {"x", ","}

\* C27: in the plain scanner a block comment ends at the first `*/` after
\* its `/*`, whatever precedes that `*/`, and the byte after it is the
\* first byte considered after the comment
C27_BlockCommentClose ==
    ClosedBlockComment =>
        /\ out.kind = "byte"
        /\ out.c = ByteAt(CommentClose(out.from + 2) + 2)
        /\ de.i = CommentClose(out.from + 2) + 2

\* the input is an array of one scalar or an object of one member, with a
\* comma before the closing bracket
TrailingComma ==
    \E a \in DocScalars : \E s \in {<<",">>, <<" ", ",">>, <<",", " ">>} :
        \/ input = <<"[">> \o a \o s \o <<"]">>
        \/ input = <<"{", "\"", "a", "\"", ":">> \o a \o s \o <<"}">>

\* C28: a comma before the closing bracket of an array or of an object is
\* rejected with ExtraComma
C28_TrailingCommaRejected ==
    (out.op = "from_trait" /\ TrailingComma) =>
        (out.kind = "error" /\ out.err = "ExtraComma")

\* C29: a number whose integer part exceeds u64::MAX is delivered as a
\* number only when a newline, `,`, `]` or `}` follows it, and a number
\* consumer gets UnexpectedCharacter when another significant byte follows
\* it directly
C29_LongIntegerTerminated ==
    (out.op = "deserialize" /\ out.from = 0 /\ LongInteger
        /\ ByteAt(IntEnd) \notin {".", "e", "E"}) =>
        /\ (target = "Value" /\ out.v.t = "F64") =>
                AfterBlanks(IntEnd) \in {"\n", "\r", ",", "]", "}"}
        /\ (target = "I32" /\ ByteAt(IntEnd) = "x") =>
                (out.kind = "error" /\ out.err = "UnexpectedCharacter")

\* the value of a run of digits that an i32 holds
RECURSIVE NatOf(_)
NatOf(s) == IF s = <<>> THEN 0 ELSE NatOf(SubSeq(s, 1, Len(s) - 1)) * 10 + DigitVal(s[Len(s)])

\* the input starts with a number text with an exponent whose digits an
\* i32 holds, and a significand a u64 holds
ExponentInI32 ==
    /\ IsNumeral(NumDigits)
    /\ FracEnd # IntEnd + 1
    /\ FracEnd - NumSign <= Len(U64MaxText)
    /\ ByteAt(FracEnd) \in {"e", "E"}
    /\ Len(ExpDigits) >= 1
    /\ ~NatGt(Stripped(ExpDigits), <<"2", "1", "4", "7", "4", "8", "3", "6", "4", "7">>)

\* the decimal exponent parse_exponent hands to f64_from_parts: the
\* exponent of the text, less one for every digit of the fraction
HandedExponent ==
    LET starting_exp == IF FracEnd = IntEnd THEN 0 ELSE -(FracEnd - IntEnd - 1)
    IN  IF ByteAt(FracEnd + 1) = "-"
        THEN saturating_sub(starting_exp, NatOf(Stripped(ExpDigits)))
        ELSE saturating_add(starting_exp, NatOf(Stripped(ExpDigits)))

\* C30: the decimal exponent handed to f64_from_parts lies in
\* i32::MIN + 1 ..= i32::MAX, so that its absolute value is an i32, for
\* every number text, a fraction with an exponent of -2147483647 included
C30_ExponentInRange ==
    (out.op = "deserialize" /\ out.from = 0 /\ target \in {"Value", "I32"} /\ ExponentInI32) =>
        HandedExponent \in (I32Min + 1)..I32Max

====
